---- MODULE Spec2Model ----
(***************************************************************************)
(* A model of the expense tracker of src/app.py: the Account Directory     *)
(* (User table), the Ledger Store (Transaction table), the Flask-Login     *)
(* session and the request handlers that write to and read from them.      *)
(* One action per route handler; the value a handler returns is kept in    *)
(* the variable response.  Spec serves one request at a time on a fresh    *)
(* store, SpecPaged does so on a ledger of several pages, SpecRestarted    *)
(* does so after a restart of the process, and SpecConcurrent interleaves  *)
(* the steps of two requests.                                              *)
(***************************************************************************)
EXTENDS Integers, Sequences, FiniteSets, TLC

VARIABLES
    db_initialized,   \* the module global _db_initialized
    users,            \* rows of the user table, in id order (id = index)
    txns,             \* rows of the transaction table, in id order (id = index)
    session,          \* per browser: <<>> or <<user id>> (Flask-Login's _user_id)
    now,              \* the last value datetime.utcnow() returned
    response,         \* what the last handler returned
    inflight,         \* per worker thread: the request it is serving and where it is
    sum_compensated   \* the SQLite library of the deployment sums with
                      \* compensation (3.44 and later) or plainly (before)

vars == <<db_initialized, users, txns, session, now, response, inflight,
          sum_compensated>>

\* What the handlers of Spec and SpecPaged, which serve one request at a
\* time, leave alone.
threads == <<inflight, sum_compensated>>

(***************************************************************************)
(* Bounds of the model.                                                    *)
(***************************************************************************)
MaxTxns == 2          \* rows the transaction table may hold in Spec
MaxPagedTxns == 24    \* rows the transaction table may hold in SpecPaged

(***************************************************************************)
(* Constants of the program.                                               *)
(***************************************************************************)
PerPage == 20         \* per_page of /transactions
RecentLimit == 10     \* limit of the dashboard's recent transactions

(***************************************************************************)
(* Values.                                                                 *)
(***************************************************************************)
None == "<None>"      \* Python's None, for a form field that is absent

Browsers == {"b1"}

Min(a, b) == IF a < b THEN a ELSE b

\* Python truthiness of a form value: None and '' are falsy.
Truthy(v) == v # None /\ v # ""

(***************************************************************************)
(* The Category Catalog.                                                   *)
(***************************************************************************)
INCOME_CATEGORIES ==
    {"salary", "freelance", "investment", "business", "gift", "other_income"}

EXPENSE_CATEGORIES ==
    {"food", "transportation", "shopping", "entertainment", "bills",
     "healthcare", "education", "travel", "housing", "other_expense"}

\* The catalog list for a kind; an unrecognised kind has the empty list.
validCategories(kind) ==
    CASE kind = "income" -> INCOME_CATEGORIES
      [] kind = "expense" -> EXPENSE_CATEGORIES
      [] OTHER -> {}

(***************************************************************************)
(* Doubles: the values of Python's float and of SQLite's REAL, which is    *)
(* what db.Float stores.  A whole number below 2^20 is kept as an integer; *)
(* any other finite double is its sign and its magnitude, which is the set *)
(* of the positions of the 1 bits of the magnitude counted in units of     *)
(* 2^-56 (so 2^53 is {109} and 0.25 is {54}).  The arithmetic is IEEE 754: *)
(* the exact result rounded to 53 significant bits, ties to even.          *)
(***************************************************************************)
Frac == 56            \* a magnitude is counted in units of 2^-56
Precision == 53       \* sys.float_info.mant_dig
SmallLimit == 2^20    \* whole doubles below it are kept as integers

Whole(n) == [cls |-> "whole", n |-> n]

Binary(neg, bits) == [cls |-> "binary", neg |-> neg, bits |-> bits]

Infinity(neg) == [cls |-> "inf", neg |-> neg]

NaN == [cls |-> "nan"]

Top(S) == CHOOSE i \in S : \A j \in S : j <= i

Bottom(S) == CHOOSE i \in S : \A j \in S : i <= j

BitsOf(n) == {i \in 0..30 : (n \div 2^i) % 2 = 1}

RECURSIVE NumberOf(_)
NumberOf(S) == IF S = {} THEN 0 ELSE 2^Top(S) + NumberOf(S \ {Top(S)})

Abs(n) == IF n < 0 THEN -n ELSE n

Magnitude(d) == IF d.cls = "whole" THEN {i + Frac : i \in BitsOf(Abs(d.n))} ELSE d.bits

Negative(d) == IF d.cls = "whole" THEN d.n < 0 ELSE d.neg

\* The double of a sign and a magnitude, in the form the model keeps it.
Canonical(neg, bits) ==
    IF bits = {} THEN Whole(0)
    ELSE IF Bottom(bits) >= Frac /\ Top(bits) < Frac + 20
    THEN Whole(IF neg THEN 0 - NumberOf({i - Frac : i \in bits})
                      ELSE NumberOf({i - Frac : i \in bits}))
    ELSE Binary(neg, bits)

\* The sum of two magnitudes: bit i of the sum is the exclusive or of the two
\* bits and the carry, and a carry enters position i when some lower position
\* holds a bit of both and every position between holds a bit of one.
CarryInto(A, B, i) ==
    \E j \in A \cap B : j < i /\ \A k \in (j + 1)..(i - 1) : k \in A \cup B

MagAdd(A, B) ==
    IF A = {} THEN B ELSE IF B = {} THEN A
    ELSE {i \in Bottom(A \cup B)..(Top(A \cup B) + 1) :
             ((i \in A) # (i \in B)) # CarryInto(A, B, i)}

\* The difference A - B of two magnitudes, A not below B: a borrow enters
\* position i when some lower position holds a bit of B alone and no position
\* between holds a bit of A alone.
BorrowInto(A, B, i) ==
    \E j \in B \ A : j < i /\ \A k \in (j + 1)..(i - 1) : k \notin A \ B

MagSub(A, B) ==
    IF B = {} THEN A
    ELSE {i \in Bottom(A \cup B)..Top(A) :
             ((i \in A) # (i \in B)) # BorrowInto(A, B, i)}

MagLess(A, B) == A # B /\ Top((A \ B) \cup (B \ A)) \in B

\* The magnitude rounded to Precision significant bits, ties to even.
RoundEven(S) ==
    IF S = {} THEN {}
    ELSE LET cut  == Top(S) - Precision + 1
             kept == {i \in S : i >= cut}
             rest == {i \in S : i < cut}
         IN  IF (cut - 1) \in rest /\ (rest # {cut - 1} \/ cut \in S)
             THEN MagAdd(kept, {cut})
             ELSE kept

\* a + b of two doubles.
float_add(a, b) ==
    IF a.cls = "whole" /\ b.cls = "whole" /\ Abs(a.n + b.n) < SmallLimit
    THEN Whole(a.n + b.n)
    ELSE IF a.cls = "nan" \/ b.cls = "nan" THEN NaN
    ELSE IF a.cls = "inf" /\ b.cls = "inf" THEN IF a.neg = b.neg THEN a ELSE NaN
    ELSE IF a.cls = "inf" THEN a
    ELSE IF b.cls = "inf" THEN b
    ELSE LET A == Magnitude(a)
             B == Magnitude(b)
         IN  IF Negative(a) = Negative(b)
             THEN Canonical(Negative(a), RoundEven(MagAdd(A, B)))
             ELSE IF MagLess(A, B)
             THEN Canonical(Negative(b), RoundEven(MagSub(B, A)))
             ELSE Canonical(Negative(a), RoundEven(MagSub(A, B)))
float_neg(a) ==
    CASE a.cls = "whole"  -> Whole(0 - a.n)
      [] a.cls = "binary" -> Binary(~a.neg, a.bits)
      [] a.cls = "inf"    -> Infinity(~a.neg)
      [] OTHER            -> NaN

\* a - b of two doubles.
float_sub(a, b) == float_add(a, float_neg(b))

\* fabs(a) > fabs(b) of two doubles.
float_abs_gt(a, b) ==
    IF a.cls = "nan" \/ b.cls = "nan" THEN FALSE
    ELSE IF a.cls = "inf" THEN b.cls # "inf"
    ELSE IF b.cls = "inf" THEN FALSE
    ELSE IF a.cls = "whole" /\ b.cls = "whole" THEN Abs(a.n) > Abs(b.n)
    ELSE MagLess(Magnitude(b), Magnitude(a))

\* Long division of a natural by ten, eight bits at a time from chunk k
\* down: quotient and remainder.
Bit(S, j) == IF j \in S THEN 1 ELSE 0

Chunk(S, k) ==
    Bit(S, 8 * k) + 2 * Bit(S, 8 * k + 1) + 4 * Bit(S, 8 * k + 2)
    + 8 * Bit(S, 8 * k + 3) + 16 * Bit(S, 8 * k + 4) + 32 * Bit(S, 8 * k + 5)
    + 64 * Bit(S, 8 * k + 6) + 128 * Bit(S, 8 * k + 7)

RECURSIVE DivTen(_, _, _)
DivTen(S, k, rem) ==
    IF k < 0 THEN [q |-> {}, r |-> rem]
    ELSE LET cur  == 256 * rem + Chunk(S, k)
             rest == DivTen(S, k - 1, cur % 10)
         IN  [q |-> {j + 8 * k : j \in BitsOf(cur \div 10)} \cup rest.q, r |-> rest.r]

RECURSIVE DecimalText(_)
DecimalText(S) ==
    IF S = {} THEN ""
    ELSE LET d == DivTen(S, Top(S) \div 8, 0)
         IN  DecimalText(d.q) \o ToString(d.r)

Shifted(S, k) == {i + k : i \in S}

\* The magnitude times 100, rounded half-even to a whole number.
Hundredths(S) ==
    LET T     == MagAdd(MagAdd(Shifted(S, 6), Shifted(S, 5)), Shifted(S, 2))
        whole == {i - Frac : i \in {j \in T : j >= Frac}}
        rest  == {i \in T : i < Frac}
    IN  IF (Frac - 1) \in rest /\ (rest # {Frac - 1} \/ 0 \in whole)
        THEN MagAdd(whole, {0})
        ELSE whole

\* f"{total:.2f}": the decimal text with two digits after the point, of the
\* exact value rounded half-even.
format_2f(total) ==
    CASE total.cls = "whole" -> ToString(total.n) \o ".00"
      [] total.cls = "inf"   -> IF total.neg THEN "-inf" ELSE "inf"
      [] total.cls = "nan"   -> "nan"
      [] OTHER ->
            LET H     == Hundredths(total.bits)
                units == IF H = {} THEN [q |-> {}, r |-> 0] ELSE DivTen(H, Top(H) \div 8, 0)
                tens  == IF units.q = {} THEN [q |-> {}, r |-> 0]
                         ELSE DivTen(units.q, Top(units.q) \div 8, 0)
            IN  (IF total.neg THEN "-" ELSE "")
                \o (IF tens.q = {} THEN "0" ELSE DecimalText(tens.q))
                \o "." \o ToString(tens.r) \o ToString(units.r)

\* x > 0, x <= 0 and x < 0 of a double; every comparison with NaN is false.
float_gt0(d) ==
    CASE d.cls = "whole" -> d.n > 0
      [] d.cls = "nan"   -> FALSE
      [] OTHER           -> ~d.neg

float_le0(d) ==
    CASE d.cls = "whole" -> d.n <= 0
      [] d.cls = "nan"   -> FALSE
      [] OTHER           -> d.neg

float_lt0(d) ==
    CASE d.cls = "whole" -> d.n < 0
      [] d.cls = "nan"   -> FALSE
      [] OTHER           -> d.neg

(***************************************************************************)
(* Conversions of form text.                                               *)
(***************************************************************************)
\* float(text) returned a double, or raised ValueError.
Parsed(d) == [err |-> FALSE, nan |-> d.cls = "nan", val |-> d]

ValueError == [err |-> TRUE, nan |-> FALSE, val |-> Whole(0)]

\* float(amount) for the amount texts of the model: Python takes a decimal
\* with or without a fraction or an exponent, blanks around it, 'inf' and
\* 'nan', and gives the nearest double (0.1 is 0x1.999999999999ap-4, 0.2 is
\* 0x1.999999999999ap-3, 0.3 is 0x1.3333333333333p-2, 9007199254740992 is
\* 2^53, 5.551115123125783e-17 is 2^-54); text that is no number raises
\* ValueError.
float(s) ==
    CASE s = "10"   -> Parsed(Whole(10))
      [] s = "25"   -> Parsed(Whole(25))
      [] s = "1"    -> Parsed(Whole(1))
      [] s = "0"    -> Parsed(Whole(0))
      [] s = "-5"   -> Parsed(Whole(-5))
      [] s = " 10 " -> Parsed(Whole(10))
      [] s = "1e3"  -> Parsed(Whole(1000))
      [] s = "1.5"  -> Parsed(Binary(FALSE, {55, 56}))
      [] s = "0.25" -> Parsed(Binary(FALSE, {54}))
      [] s = "0.1"  -> Parsed(Binary(FALSE, {1, 3, 4, 7, 8, 11, 12, 15, 16, 19, 20, 23, 24, 27, 28, 31, 32, 35, 36, 39, 40, 43, 44, 47, 48, 51, 52}))
      [] s = "0.2"  -> Parsed(Binary(FALSE, {2, 4, 5, 8, 9, 12, 13, 16, 17, 20, 21, 24, 25, 28, 29, 32, 33, 36, 37, 40, 41, 44, 45, 48, 49, 52, 53}))
      [] s = "0.3"  -> Parsed(Binary(FALSE, {2, 3, 6, 7, 10, 11, 14, 15, 18, 19, 22, 23, 26, 27, 30, 31, 34, 35, 38, 39, 42, 43, 46, 47, 50, 51, 54}))
      [] s = "9007199254740992" -> Parsed(Binary(FALSE, {109}))
      [] s = "5.551115123125783e-17" -> Parsed(Binary(FALSE, {2}))
      [] s = "inf"  -> Parsed(Infinity(FALSE))
      [] s = "nan"  -> Parsed(NaN)
      [] s = "abc"  -> ValueError
      [] s = ""     -> ValueError

\* The fields the format '%Y-%m-%d' matches in the text, <<>> when the text
\* does not match the format: %Y takes four digits, %m and %d take one or
\* two.
DateFields(s) ==
    CASE s = "2024-01-15" -> <<2024, 1, 15>>
      [] s = "2024-1-5"   -> <<2024, 1, 5>>
      [] s = "2023-12-31" -> <<2023, 12, 31>>
      [] s = "2024-02-30" -> <<2024, 2, 30>>
      [] OTHER            -> <<>>

IsLeap(y) == (y % 4 = 0 /\ y % 100 # 0) \/ y % 400 = 0

DaysIn(y, m) ==
    CASE m \in {1, 3, 5, 7, 8, 10, 12} -> 31
      [] m \in {4, 6, 9, 11}           -> 30
      [] OTHER                         -> IF IsLeap(y) THEN 29 ELSE 28

\* datetime.strptime(date_str, '%Y-%m-%d').date(): <<>> stands for ValueError.
strptime(s) ==
    LET f == DateFields(s)
    IN  IF f = <<>> THEN <<>>
        ELSE IF f[1] \in 1..9999 /\ f[2] \in 1..12 /\ f[3] \in 1..DaysIn(f[1], f[2])
             THEN f
             ELSE <<>>

\* strftime('%Y-%m', date): the year-month key of a date.
strftime_Ym(d) == <<d[1], d[2]>>

\* The order of two 'YYYY-MM' keys as text.
MonthLess(a, b) == a[1] < b[1] \/ (a[1] = b[1] /\ a[2] < b[2])

\* bcrypt.generate_password_hash(password).decode('utf-8')
generate_password_hash(pw) == <<"$2b$", pw>>

\* bcrypt.check_password_hash(pw_hash, password): whether the password hashes
\* to pw_hash.  A password that is None is no text to hash: bcrypt.hashpw
\* raises TypeError.
check_password_hash(h, pw) ==
    IF pw = None THEN "TypeError"
    ELSE IF h = generate_password_hash(pw) THEN "True" ELSE "False"

(***************************************************************************)
(* ensure_db: the flag after the call, given whether db.create_all()       *)
(* succeeds; the flag is also the value returned.                          *)
(***************************************************************************)
ensure_db(create_ok) == db_initialized \/ create_ok

\* The outcomes of db.create_all() that matter: it runs only while the flag
\* is unset.
CreateOutcomes == IF db_initialized THEN {TRUE} ELSE BOOLEAN

(***************************************************************************)
(* Flask-Login.                                                            *)
(***************************************************************************)
\* load_user without its call of ensure_db and without the lookup: whatever
\* id the session names is the user.
load_user_trusts_cookie(b, dbflag, select_ok) == session[b]

\* load_user through current_user: <<>> for the anonymous user, else <<id>>.
\* dbflag is what ensure_db returned inside load_user; select_ok is whether
\* User.query.get(int(user_id)) returned, and when it raised the except
\* branch of load_user returns None.
load_user(b, dbflag, select_ok) ==
    IF session[b] = <<>> THEN <<>>
    ELSE IF ~dbflag THEN <<>>
    ELSE IF ~select_ok THEN <<>>
    ELSE IF session[b][1] \in 1..Len(users) THEN session[b] ELSE <<>>

\* The database flag after the login_required check of a request: load_user
\* calls ensure_db only when the session names a user.
FlagAfterLoad(b, create_ok) ==
    IF session[b] = <<>> THEN db_initialized ELSE ensure_db(create_ok)

\* The outcomes of the lookup of load_user that matter: it runs only when the
\* session names a user.
LoadOutcomes(b) == IF session[b] = <<>> THEN {TRUE} ELSE BOOLEAN

\* The forms that matter to a request: one that is answered before its form
\* is read (read is false) is answered the same whatever the form.
FormsRead(forms, read) == IF read THEN forms ELSE {CHOOSE f \in forms : TRUE}

Redirect(route, target) == [route |-> route, body |-> "redirect", to |-> target]

Page(route, body) == [route |-> route, body |-> body]

\* login_required turning an anonymous request away to the login view.
Unauthorized(route) == [route |-> route, body |-> "unauthorized", to |-> "login"]

\* A page rendered from the data a handler computed.
View(route, uid, data) == [route |-> route, body |-> "view", user |-> uid, data |-> data]

(***************************************************************************)
(* Queries of the Ledger Store.                                            *)
(***************************************************************************)
\* filter_by(user_id=uid): the rows of an owner, in scan (id) order.
filter_by_user(rows, uid) == SelectSeq(rows, LAMBDA t : t.user_id = uid)

\* filter_by(type=kind): the owner forgotten.
filter_by_type_only(rows, uid, kind) == SelectSeq(rows, LAMBDA t : t.type = kind)

\* filter_by(user_id=uid, type=kind).
filter_by_user_type(rows, uid, kind) ==
    SelectSeq(rows, LAMBDA t : t.user_id = uid /\ t.type = kind)

\* ORDER BY created_at DESC as SQLite evaluates it: rows with equal
\* created_at keep their scan order.
RECURSIVE order_by_created_desc(_)
order_by_created_desc(rows) ==
    IF rows = <<>> THEN <<>>
    ELSE LET n    == Len(rows)
             last == rows[n]
             rest == order_by_created_desc(SubSeq(rows, 1, n - 1))
             \* last goes after every row whose created_at is not smaller
             k    == Cardinality({i \in 1..Len(rest) :
                                   rest[i].created_at >= last.created_at})
         IN  SubSeq(rest, 1, k) \o <<last>> \o SubSeq(rest, k + 1, Len(rest))

\* SQLite's sum() over a REAL column before 3.44: a double that starts at
\* 0.0 and has each row's amount added to it in the order of the scan.
RECURSIVE PlainSum(_)
PlainSum(rows) ==
    IF rows = <<>> THEN Whole(0)
    ELSE float_add(PlainSum(SubSeq(rows, 1, Len(rows) - 1)), rows[Len(rows)].amount)

\* SQLite's sum() from 3.44 on (Kahan-Babuska-Neumaier): next to the running
\* sum rSum it keeps rErr, the sum of what each addition rounded away, and
\* returns rSum + rErr, or rSum when rErr is infinite or no number.
KahanStep(p, r) ==
    LET s == p.rSum
        t == float_add(s, r)
    IN  [rSum |-> t,
         rErr |-> float_add(p.rErr,
                            IF float_abs_gt(s, r)
                            THEN float_add(float_sub(s, t), r)
                            ELSE float_add(float_sub(r, t), s))]

RECURSIVE KahanSteps(_)
KahanSteps(rows) ==
    IF rows = <<>> THEN [rSum |-> Whole(0), rErr |-> Whole(0)]
    ELSE KahanStep(KahanSteps(SubSeq(rows, 1, Len(rows) - 1)), rows[Len(rows)].amount)

KahanSum(rows) ==
    LET p == KahanSteps(rows)
    IN  IF p.rErr.cls \in {"inf", "nan"} THEN p.rSum ELSE float_add(p.rSum, p.rErr)

\* The sum of amounts that are whole numbers, none negative.
RECURSIVE WholeTotal(_)
WholeTotal(rows) ==
    IF rows = <<>> THEN 0 ELSE rows[1].amount.n + WholeTotal(Tail(rows))

\* sum(amount) of the SQLite library the deployment links.  Of whole amounts
\* that add up to less than SmallLimit every partial sum is exact and rErr
\* stays 0.0, so both libraries return that number.
SumAmount(rows) ==
    IF /\ \A i \in 1..Len(rows) : rows[i].amount.cls = "whole" /\ rows[i].amount.n >= 0
       /\ WholeTotal(rows) < SmallLimit
    THEN Whole(WholeTotal(rows))
    ELSE IF sum_compensated THEN KahanSum(rows) ELSE PlainSum(rows)

\* db.func.sum(Transaction.amount) ... .scalar(): <<>> is NULL (no rows).
sum_scalar(rows) == IF rows = <<>> THEN <<>> ELSE <<SumAmount(rows)>>

\* Python's  x or 0 : None and 0.0 give 0.
or0(x) == IF x = <<>> THEN Whole(0) ELSE x[1]

\* The total of an owner's rows of one kind, as every handler computes it.
total_by_kind(rows, uid, kind) == or0(sum_scalar(filter_by_user_type(rows, uid, kind)))


\* .order_by(created_at.desc()).limit(10): the dashboard's recent rows.
recent_transactions(rows, uid) ==
    LET sorted == order_by_created_desc(filter_by_user(rows, uid))
    IN  SubSeq(sorted, 1, Min(RecentLimit, Len(sorted)))

\* paginate with the offset  page * per_page  (pages counted from 0).
paginate_from_zero(sorted, page) ==
    LET p     == IF page < 1 THEN 1 ELSE page
        total == Len(sorted)
        pages == (total + PerPage - 1) \div PerPage
        first == p * PerPage + 1
        last  == Min((p + 1) * PerPage, total)
    IN  [items    |-> SubSeq(sorted, first, last),
         page     |-> p,
         total    |-> total,
         has_prev |-> p > 1,
         has_next |-> p < pages]

\* paginate without the per_page limit: everything from the page's first row.
paginate_unbounded(sorted, page) ==
    LET p     == IF page < 1 THEN 1 ELSE page
        total == Len(sorted)
        pages == (total + PerPage - 1) \div PerPage
        first == (p - 1) * PerPage + 1
    IN  [items    |-> SubSeq(sorted, first, total),
         page     |-> p,
         total    |-> total,
         has_prev |-> p > 1,
         has_next |-> p < pages]

\* .paginate(page=page, per_page=20, error_out=False)
paginate(sorted, page) ==
    LET p     == IF page < 1 THEN 1 ELSE page
        total == Len(sorted)
        pages == (total + PerPage - 1) \div PerPage
        first == (p - 1) * PerPage + 1
        last  == Min(p * PerPage, total)
    IN  [items    |-> SubSeq(sorted, first, last),
         page     |-> p,
         total    |-> total,
         has_prev |-> p > 1,
         has_next |-> p < pages]

\* The page of an owner's rows that /transactions shows.
transactions_page(rows, uid, page) ==
    paginate(order_by_created_desc(filter_by_user(rows, uid)), page)

\* query(category, sum(amount)).filter_by(user_id, type).group_by(category):
\* one row per category that has rows; no ORDER BY, so a set of rows.
by_category(rows, uid, kind) ==
    LET mine == filter_by_user_type(rows, uid, kind)
        cats == {mine[i].category : i \in 1..Len(mine)}
    IN  {[category |-> c,
          total    |-> SumAmount(SelectSeq(mine, LAMBDA t : t.category = c))]
         : c \in cats}

\* The text order of the type values of the model.
TypeOrder == <<"expense", "income", "transfer">>

TypeRank(ty) == CHOOSE i \in 1..Len(TypeOrder) : TypeOrder[i] = ty

\* The order of two (month, type) groups: GROUP BY month, type ORDER BY month.
GroupLess(g, h) ==
    MonthLess(g.month, h.month)
    \/ (g.month = h.month /\ TypeRank(g.type) < TypeRank(h.type))

RECURSIVE SortGroups(_)
SortGroups(gs) ==
    IF gs = {} THEN <<>>
    ELSE LET g == CHOOSE x \in gs : \A y \in gs \ {x} : GroupLess(x, y)
         IN  <<g>> \o SortGroups(gs \ {g})

\* query(strftime('%Y-%m', date), type, sum(amount)).filter_by(user_id)
\*   .group_by('month', type).order_by('month')
monthly_data(rows, uid) ==
    LET mine == filter_by_user(rows, uid)
        keys == {[month |-> strftime_Ym(mine[i].date), type |-> mine[i].type]
                 : i \in 1..Len(mine)}
    IN  SortGroups({[month |-> k.month,
                     type  |-> k.type,
                     total |-> SumAmount(SelectSeq(mine, LAMBDA t :
                                  strftime_Ym(t.date) = k.month /\ t.type = k.type))]
                    : k \in keys})

(***************************************************************************)
(* What the read handlers render for a user.                               *)
(***************************************************************************)
dashboard_view(rows, uid) ==
    LET total_income  == total_by_kind(rows, uid, "income")
        total_expense == total_by_kind(rows, uid, "expense")
    IN  [transactions  |-> recent_transactions(rows, uid),
         total_income  |-> total_income,
         total_expense |-> total_expense,
         balance       |-> float_sub(total_income, total_expense)]

\* The page the dashboard falls back to when its body raises.
dashboard_fallback ==
    [transactions |-> <<>>, total_income |-> Whole(0), total_expense |-> Whole(0),
     balance |-> Whole(0)]

transactions_view(rows, uid, page) ==
    LET pg             == transactions_page(rows, uid, page)
        total_income   == total_by_kind(rows, uid, "income")
        total_expenses == total_by_kind(rows, uid, "expense")
    IN  [items          |-> pg.items,
         page           |-> pg.page,
         has_prev       |-> pg.has_prev,
         has_next       |-> pg.has_next,
         total_income   |-> total_income,
         total_expenses |-> total_expenses,
         net_income     |-> float_sub(total_income, total_expenses)]

\* The text order of the categories of the model: SQLite returns the groups
\* of a GROUP BY in the order of the grouping key.
CategoryOrder ==
    <<"bills", "bogus", "business", "education", "entertainment", "food",
      "freelance", "gift", "healthcare", "housing", "investment",
      "other_expense", "other_income", "salary", "shopping", "transportation",
      "travel">>

CategoryRank(c) == CHOOSE i \in 1..Len(CategoryOrder) : CategoryOrder[i] = c

RECURSIVE SortByCategory(_)
SortByCategory(entries) ==
    IF entries = {} THEN <<>>
    ELSE LET e == CHOOSE x \in entries :
                     \A y \in entries : CategoryRank(x.category) <= CategoryRank(y.category)
         IN  <<e>> \o SortByCategory(entries \ {e})

\* f"<li>{category}: Rs.{total:.2f}</li>": the text of one list item.
html_item(e) == e.category \o ": Rs." \o format_2f(e.total)

\* The page analytics builds itself when analytics.html does not render,
\* from the two breakdowns it has read: the income entries, then the expense
\* entries; no monthly data.
fallback_html(income_by_category, expense_by_category) ==
    LET income  == SortByCategory(income_by_category)
        expense == SortByCategory(expense_by_category)
    IN  [html_items |-> [k \in 1..Len(income) |-> html_item(income[k])]
                        \o [k \in 1..Len(expense) |-> html_item(expense[k])]]

analytics_fallback(rows, uid) ==
    fallback_html(by_category(rows, uid, "income"), by_category(rows, uid, "expense"))

analytics_view(rows, uid) ==
    [income_by_category  |-> by_category(rows, uid, "income"),
     expense_by_category |-> by_category(rows, uid, "expense"),
     monthly_data        |-> monthly_data(rows, uid)]

profile_view(rows, uid) ==
    LET total_income  == total_by_kind(rows, uid, "income")
        total_expense == total_by_kind(rows, uid, "expense")
    IN  [total_transactions |-> Len(filter_by_user(rows, uid)),
         total_income       |-> total_income,
         total_expense      |-> total_expense,
         net_balance        |-> float_sub(total_income, total_expense),
         username           |-> users[uid].username,
         email              |-> users[uid].email]


(***************************************************************************)
(* The requests the model sends.                                           *)
(***************************************************************************)
Usernames == {"alice", "bob"}

BaseRegistration ==
    [first_name |-> "Ann", last_name |-> "Lee", username |-> "alice",
     email |-> "a@x.io", password |-> "pw1"]

\* Complete forms: two that never collide, and one that shares its handle
\* with the one and its email with the other.
CompleteRegistrations ==
    {BaseRegistration,
     [BaseRegistration EXCEPT !.username = "bob", !.email = "b@x.io",
                              !.password = "pw2"],
     [BaseRegistration EXCEPT !.username = "bob", !.password = "pw2"]}

RegisterForms ==
    CompleteRegistrations
    \cup {[BaseRegistration EXCEPT !.first_name = ""],
          [BaseRegistration EXCEPT !.last_name = None],
          [BaseRegistration EXCEPT !.username = ""],
          [BaseRegistration EXCEPT !.email = None],
          [BaseRegistration EXCEPT !.password = ""]}

\* Each handle with its own secret, the other account's secret, a secret
\* of no account and no secret; request.form.get gives None for a field the
\* POST does not carry, the handle included.
LoginForms ==
    [username : Usernames \cup {None}, password : {"pw1", "pw2", "bad", None}]

BaseIncome ==
    [type |-> "income", amount |-> "10", category |-> "salary",
     description |-> "pay", date |-> "2024-01-15"]

BaseExpense ==
    [type |-> "expense", amount |-> "25", category |-> "food",
     description |-> "", date |-> "2023-12-31"]

\* Forms that pass the handler's checks.
PassingForms ==
    {BaseIncome,
     BaseExpense,
     [BaseIncome EXCEPT !.type = "expense", !.description = None],
     [BaseExpense EXCEPT !.type = "transfer", !.category = "bogus"]}

\* Forms with a field missing or malformed.
MalformedForms ==
    {[BaseIncome EXCEPT !.type = v] : v \in {None, ""}}
    \cup {[BaseIncome EXCEPT !.amount = v] : v \in {None, "", "abc", "nan"}}
    \cup {[BaseIncome EXCEPT !.category = v] : v \in {None, ""}}
    \cup {[BaseIncome EXCEPT !.date = v] : v \in {None, "", "2024-02-30", "15/01/2024"}}

\* Forms whose amount is zero or negative, for every kind, category and date.
NonPositiveForms ==
    [type : {"income", "expense", "transfer"},
     amount : {"0", "-5"},
     category : {"salary", "bogus"},
     description : {"pay"},
     date : {"2024-01-15", "2023-12-31"}]

AddForms == PassingForms \cup MalformedForms \cup NonPositiveForms

PageArgs == {0, 1, 2}

(***************************************************************************)
(* Init: a fresh process on a fresh database.                              *)
(***************************************************************************)
NoResponse == [route |-> "", body |-> ""]

\* The threads that serve requests, and a thread that serves none.
Workers == {"w1", "w2", "w3"}

Idle == [op |-> "idle", pc |-> "idle"]

Init ==
    /\ sum_compensated \in BOOLEAN
    /\ db_initialized = FALSE
    /\ users = <<>>
    /\ txns = <<>>
    /\ session = [b \in Browsers |-> <<>>]
    /\ now = 0
    /\ response = NoResponse
    /\ inflight = [w \in Workers |-> Idle]

(***************************************************************************)
(* POST /register                                                          *)
(***************************************************************************)
\* The existence check on the handle alone.
existing_username(username, email) ==
    \E i \in 1..Len(users) : users[i].username = username

\* User.query.filter((username == u) | (email == e)).first() is not None
existing_user(username, email) ==
    \E i \in 1..Len(users) : users[i].username = username \/ users[i].email = email

\* The unique=True constraints of User.username and User.email, which the
\* store checks when the insert is flushed.
unique_violation(username, email) ==
    \/ \E i \in 1..Len(users) : users[i].username = username
    \/ \E i \in 1..Len(users) : users[i].email = email

\* User(first_name=..., ...) once the store has given it the id.
UserRow(id, form) ==
    [id            |-> id,
     username      |-> form.username,
     email         |-> form.email,
     password_hash |-> generate_password_hash(form.password),
     first_name    |-> form.first_name,
     last_name     |-> form.last_name]

NewUser(form) == UserRow(Len(users) + 1, form)

Register(form, create_ok, query_ok, commit_ok) ==
    /\ db_initialized' = ensure_db(create_ok)
    /\ UNCHANGED <<txns, session, now>>
    /\ IF ~ensure_db(create_ok)
       THEN /\ response' = Page("register", "Database Error")
            /\ UNCHANGED users
       ELSE IF ~(Truthy(form.first_name) /\ Truthy(form.last_name)
                 /\ Truthy(form.username) /\ Truthy(form.email)
                 /\ Truthy(form.password))
       THEN /\ response' = Page("register", "All fields are required")
            /\ UNCHANGED users
       ELSE IF ~query_ok
       THEN \* the SELECT of the existence check raised: the same except
            \* branch as a failed commit
            /\ response' = Page("register", "Registration Error")
            /\ UNCHANGED users
       ELSE IF existing_user(form.username, form.email)
       THEN /\ response' = Page("register", "Username or email already exists")
            /\ UNCHANGED users
       ELSE IF commit_ok /\ ~unique_violation(form.username, form.email)
       THEN /\ users' = Append(users, NewUser(form))
            /\ response' = Page("register", "Registration successful!")
       ELSE \* db.session.commit() raised (the store failed, or a unique
            \* constraint did): rollback
            /\ response' = Page("register", "Registration Error")
            /\ UNCHANGED users

(***************************************************************************)
(* POST /login                                                             *)
(***************************************************************************)
\* User.query.filter_by(username=username).first(): <<>> or <<row>>
find_by_username(username) ==
    LET hits == SelectSeq(users, LAMBDA u : u.username = username)
    IN  IF hits = <<>> THEN <<>> ELSE <<hits[1]>>

Login(b, form, create_ok, query_ok) ==
    /\ db_initialized' = ensure_db(create_ok)
    /\ UNCHANGED <<users, txns, now>>
    /\ IF ~ensure_db(create_ok)
       THEN /\ response' = Page("login", "Database Error")
            /\ UNCHANGED session
       ELSE IF ~query_ok
       THEN \* the SELECT by username raised: except Exception
            /\ response' = Page("login", "Login Error")
            /\ UNCHANGED session
       ELSE LET user    == find_by_username(form.username)
                \* user and bcrypt.check_password_hash(...): the hash is
                \* checked only when a row was found
                checked == IF user = <<>> THEN "False"
                           ELSE check_password_hash(user[1].password_hash, form.password)
            IN  IF checked = "TypeError"
                THEN \* except Exception
                     /\ response' = Page("login", "Login Error")
                     /\ UNCHANGED session
                ELSE IF checked = "True"
                THEN /\ session' = [session EXCEPT ![b] = <<user[1].id>>]
                     /\ response' = Redirect("login", "dashboard")
                ELSE /\ response' = Page("login", "Invalid credentials")
                     /\ UNCHANGED session

(***************************************************************************)
(* GET /logout                                                             *)
(***************************************************************************)
Logout(b, create_ok, load_ok) ==
    LET flag == FlagAfterLoad(b, create_ok)
        user == load_user(b, flag, load_ok)
    IN  /\ db_initialized' = flag
        /\ UNCHANGED <<users, txns, now>>
        /\ IF user = <<>>
           THEN /\ response' = Unauthorized("logout")
                /\ UNCHANGED session
           ELSE /\ session' = [session EXCEPT ![b] = <<>>]
                /\ response' = Redirect("logout", "login")


(***************************************************************************)
(* /add_transaction                                                        *)
(***************************************************************************)
\* The row the handler builds; the store assigns id and created_at.
TransactionRow(id, uid, form, created_at) ==
    [id          |-> id,
     user_id     |-> uid,
     type        |-> form.type,
     amount      |-> float(form.amount).val,
     category    |-> form.category,
     description |-> form.description,
     date        |-> strptime(form.date),
     created_at  |-> created_at]

\* The id taken from a counter that is never advanced.
NewTransaction_reuses_id(uid, form, created_at) ==
    TransactionRow(1, uid, form, created_at)

NewTransaction(uid, form, created_at) ==
    TransactionRow(Len(txns) + 1, uid, form, created_at)

\* form_error with  amount_float < 0  in place of  amount_float <= 0.
form_error_zero_passes(form) ==
    IF ~(Truthy(form.type) /\ Truthy(form.amount) /\ Truthy(form.category)
         /\ Truthy(form.date))
    THEN "All fields are required"
    ELSE IF strptime(form.date) = <<>>
    THEN "Invalid date format"
    ELSE IF float(form.amount).err
    THEN "Invalid amount"
    ELSE IF float_lt0(float(form.amount).val)
    THEN "Amount must be positive"
    ELSE ""

\* The first check of the POST body that turns the form away, "" when the
\* form reaches the insert.
form_error(form) ==
    IF ~(Truthy(form.type) /\ Truthy(form.amount) /\ Truthy(form.category)
         /\ Truthy(form.date))
    THEN "All fields are required"
    ELSE IF strptime(form.date) = <<>>
    THEN "Invalid date format"
    ELSE IF float(form.amount).err
    THEN "Invalid amount"
    ELSE IF float_le0(float(form.amount).val)
    THEN "Amount must be positive"
    ELSE ""

\* db.session.add(transaction); db.session.commit(): the commit fails when
\* the store fails (commit_ok) and when amount is NaN, which SQLite binds as
\* NULL into a NOT NULL column.
commit_succeeds(form, commit_ok) == commit_ok /\ ~float(form.amount).nan

\* The outcomes of the commit and the steps of the clock that matter: a form
\* that is turned away reaches neither.
CommitOutcomes(form) == IF form_error(form) # "" THEN {TRUE} ELSE BOOLEAN

\* Steps of the clock between two inserts: 0 when datetime.utcnow() returns
\* the value it returned for the row before (a coarse or stalled clock).
Ticks(form) == IF form_error(form) # "" THEN {0} ELSE {0, 1}

\* The clock of Spec advances between any two inserts; SpecPaged has the ties.
StrictTicks(form) == IF form_error(form) # "" THEN {0} ELSE {1}

AddTransactionGet(b, create_ok, load_ok) ==
    LET flag == FlagAfterLoad(b, create_ok)
        user == load_user(b, flag, load_ok)
    IN  /\ db_initialized' = flag
        /\ UNCHANGED <<users, txns, session, now>>
        /\ IF user = <<>>
           THEN response' = Unauthorized("add_transaction")
           ELSE IF ~flag
           THEN response' = Page("add_transaction", "Database Error")
           ELSE response' = Page("add_transaction", "form")

\* add_transaction with the failure of the commit swallowed: the success
\* redirect is returned whether or not the row was stored.
AddTransaction_swallows_failure(b, form, create_ok, load_ok, commit_ok, tick) ==
    LET flag == FlagAfterLoad(b, create_ok)
        user == load_user(b, flag, load_ok)
    IN  /\ db_initialized' = flag
        /\ UNCHANGED <<users, session>>
        /\ IF user = <<>>
           THEN /\ response' = Unauthorized("add_transaction")
                /\ UNCHANGED <<txns, now>>
           ELSE IF ~flag
           THEN /\ response' = Page("add_transaction", "Database Error")
                /\ UNCHANGED <<txns, now>>
           ELSE IF form_error(form) # ""
           THEN /\ response' = Page("add_transaction", form_error(form))
                /\ UNCHANGED <<txns, now>>
           ELSE IF commit_succeeds(form, commit_ok)
           THEN /\ txns' = Append(txns, NewTransaction(user[1], form, now + tick))
                /\ now' = now + tick
                /\ response' = Redirect("add_transaction", "dashboard")
           ELSE /\ response' = Redirect("add_transaction", "dashboard")
                /\ UNCHANGED <<txns, now>>

AddTransaction(b, form, create_ok, load_ok, commit_ok, tick) ==
    LET flag == FlagAfterLoad(b, create_ok)
        user == load_user(b, flag, load_ok)
    IN  /\ db_initialized' = flag
        /\ UNCHANGED <<users, session>>
        /\ IF user = <<>>
           THEN /\ response' = Unauthorized("add_transaction")
                /\ UNCHANGED <<txns, now>>
           ELSE IF ~flag
           THEN /\ response' = Page("add_transaction", "Database Error")
                /\ UNCHANGED <<txns, now>>
           ELSE IF form_error(form) # ""
           THEN /\ response' = Page("add_transaction", form_error(form))
                /\ UNCHANGED <<txns, now>>
           ELSE IF commit_succeeds(form, commit_ok)
           THEN /\ txns' = Append(txns, NewTransaction(user[1], form, now + tick))
                /\ now' = now + tick
                /\ response' = Redirect("add_transaction", "dashboard")
           ELSE \* the commit raised: rollback
                /\ response' = Page("add_transaction", "Transaction Error")
                /\ UNCHANGED <<txns, now>>

(***************************************************************************)
(* The read handlers: /dashboard, /transactions, /analytics, /profile      *)
(* query_ok: the queries of the handler's body reach the store; when one   *)
(* raises, the handler's  except Exception  answers.                       *)
(* Each action here is a request served from its first statement to its    *)
(* return with no statement of another request between: all its SELECTs    *)
(* read the same table.  The requests whose SELECTs are separate steps,    *)
(* with the commits of other threads between them, are those of            *)
(* SpecConcurrent (Start, OpenSelect, Read), where a page can show parts   *)
(* read from different states of the table.                                *)
(***************************************************************************)
\* The outcomes of the body's queries that matter: an anonymous request is
\* turned away before any of them runs.
QueryOutcomes(b, load_ok) ==
    IF session[b] = <<>> \/ ~load_ok THEN {TRUE} ELSE BOOLEAN

\* The outcomes of rendering a template that matter, likewise.
TemplateOutcomes(b, load_ok) ==
    IF session[b] = <<>> \/ ~load_ok THEN {TRUE} ELSE BOOLEAN

\* @app.errorhandler(Exception): rollback, then redirect(url_for('login')).  It
\* answers an exception that leaves a view function.
handle_exception(route) == Redirect(route, "login")

\* template_ok: index.html renders.  Both returns of dashboard() render it, the
\* second inside the except branch, so a template that does not render raises
\* out of the view whatever the queries did.
Dashboard(b, create_ok, load_ok, query_ok, template_ok) ==
    LET flag == FlagAfterLoad(b, create_ok)
        user == load_user(b, flag, load_ok)
    IN  /\ db_initialized' = flag
        /\ UNCHANGED <<users, txns, session, now>>
        /\ IF user = <<>>
           THEN response' = Unauthorized("dashboard")
           ELSE IF ~template_ok
           THEN response' = handle_exception("dashboard")
           ELSE IF ~flag \/ ~query_ok
           THEN \* except Exception: the page with no rows and zero totals
                response' = View("dashboard", user[1], dashboard_fallback)
           ELSE response' = View("dashboard", user[1], dashboard_view(txns, user[1]))

Transactions(b, page, create_ok, load_ok, query_ok) ==
    LET flag == FlagAfterLoad(b, create_ok)
        user == load_user(b, flag, load_ok)
    IN  /\ db_initialized' = flag
        /\ UNCHANGED <<users, txns, session, now>>
        /\ IF user = <<>>
           THEN response' = Unauthorized("transactions")
           ELSE IF ~flag
           THEN response' = Page("transactions", "Database Error")
           ELSE IF ~query_ok
           THEN response' = Page("transactions", "System Error")
           ELSE response' =
                    View("transactions", user[1], transactions_view(txns, user[1], page))

\* template_ok: render_template('analytics.html', ...) renders (the
\* templates are the deployment's).
Analytics(b, create_ok, load_ok, query_ok, template_ok) ==
    LET flag == FlagAfterLoad(b, create_ok)
        user == load_user(b, flag, load_ok)
    IN  /\ db_initialized' = flag
        /\ UNCHANGED <<users, txns, session, now>>
        /\ IF user = <<>>
           THEN response' = Unauthorized("analytics")
           ELSE IF ~flag
           THEN response' = Page("analytics", "Database Error")
           ELSE IF ~query_ok
           THEN response' = Page("analytics", "System Error")
           ELSE IF ~template_ok
           THEN response' = [route |-> "analytics", body |-> "fallback",
                             user |-> user[1],
                             data |-> analytics_fallback(txns, user[1])]
           ELSE response' = View("analytics", user[1], analytics_view(txns, user[1]))

Profile(b, create_ok, load_ok, query_ok) ==
    LET flag == FlagAfterLoad(b, create_ok)
        user == load_user(b, flag, load_ok)
    IN  /\ db_initialized' = flag
        /\ UNCHANGED <<users, txns, session, now>>
        /\ IF user = <<>>
           THEN response' = Unauthorized("profile")
           ELSE IF ~flag
           THEN response' = Page("profile", "Database Error")
           ELSE IF ~query_ok
           THEN response' = Page("profile", "System Error")
           ELSE response' = View("profile", user[1], profile_view(txns, user[1]))

(***************************************************************************)
(* The routes without a login_required: /health, /init-db, GET /login,     *)
(* GET /register, / ; and the requests no rule of the URL map matches.     *)
(***************************************************************************)
\* app.url_map: the rules the @app.route decorators register.
url_map ==
    {"/health", "/init-db", "/debug", "/login", "/register", "/", "/dashboard",
     "/logout", "/add_transaction", "/transactions", "/analytics", "/profile",
     "/favicon.ico"}

\* health_check with a call of ensure_db in front, as landing has.
health_check_after_ensure_db ==
    \E create_ok \in CreateOutcomes :
        /\ db_initialized' = ensure_db(create_ok)
        /\ UNCHANGED <<users, txns, session, now>>
        /\ response' = [route |-> "health", body |-> "json", status |-> "ok",
                        message |-> "Flask app is running"]

\* GET /health
health_check ==
    /\ "/health" \in url_map
    /\ UNCHANGED <<db_initialized, users, txns, session, now>>
    /\ response' = [route |-> "health", body |-> "json", status |-> "ok",
                    message |-> "Flask app is running"]

\* GET /init-db
init_db_route(create_ok) ==
    /\ "/init-db" \in url_map
    /\ db_initialized' = ensure_db(create_ok)
    /\ UNCHANGED <<users, txns, session, now>>
    /\ response' = IF ensure_db(create_ok)
                   THEN [route |-> "init-db", body |-> "json", status |-> "success",
                         message |-> "Database initialized"]
                   ELSE [route |-> "init-db", body |-> "json", status |-> "error",
                         message |-> "Failed to initialize database"]

\* GET /login and GET /register: the form, from the template or inline.
LoginGet ==
    /\ "/login" \in url_map
    /\ UNCHANGED <<db_initialized, users, txns, session, now>>
    /\ response' = Page("login", "form")

RegisterGet ==
    /\ "/register" \in url_map
    /\ UNCHANGED <<db_initialized, users, txns, session, now>>
    /\ response' = Page("register", "form")

\* GET / : ensure_db(), then current_user.is_authenticated, which loads the
\* user (and calls ensure_db once more) when the session names one.
landing(b, create_ok, load_ok, create_again_ok) ==
    LET first == ensure_db(create_ok)
        flag  == IF session[b] = <<>> THEN first ELSE first \/ create_again_ok
        user  == load_user(b, flag, load_ok)
    IN  /\ "/" \in url_map
        /\ db_initialized' = flag
        /\ UNCHANGED <<users, txns, session, now>>
        /\ response' = IF user # <<>> THEN Redirect("landing", "dashboard")
                                      ELSE Redirect("landing", "login")

\* Paths that no rule of url_map matches.
UnroutedPaths == {"/missing", "/delete_transaction/1"}

\* @app.errorhandler(404): the page of 404.html.  When the template does not
\* render, the exception is raised inside the error handler; with
\* app.config['DEBUG'] = True Flask propagates it, so internal_error does not
\* run and the exception leaves the application to the WSGI server.
not_found_error(path, template_ok) ==
    IF template_ok
    THEN [route |-> "not_found", path |-> path, body |-> "404.html", code |-> 404]
    ELSE [route |-> "not_found", path |-> path,
          body |-> "propagated to the WSGI server: TemplateNotFound", code |-> 500]

\* A request of a path that no rule matches: routing raises NotFound.
NotFound(path, template_ok) ==
    /\ path \notin url_map
    /\ UNCHANGED <<db_initialized, users, txns, session, now>>
    /\ response' = not_found_error(path, template_ok)

(***************************************************************************)
(* The specification: any request, in any order.                           *)
(***************************************************************************)
Next ==
    \/ \E form \in RegisterForms, create_ok \in CreateOutcomes, query_ok \in BOOLEAN :
          /\ \E commit_ok \in FormsRead(BOOLEAN, query_ok) :
                Register(form, create_ok, query_ok, commit_ok)
          /\ UNCHANGED threads
    \/ \E b \in Browsers, create_ok \in CreateOutcomes, query_ok \in BOOLEAN :
       \E form \in FormsRead(LoginForms, query_ok) :
          /\ Login(b, form, create_ok, query_ok)
          /\ UNCHANGED threads
    \/ /\ \E b \in Browsers, create_ok \in CreateOutcomes :
          \E load_ok \in LoadOutcomes(b) : Logout(b, create_ok, load_ok)
       /\ UNCHANGED threads
    \/ /\ \E b \in Browsers, create_ok \in CreateOutcomes :
          \E load_ok \in LoadOutcomes(b) : AddTransactionGet(b, create_ok, load_ok)
       /\ UNCHANGED threads
    \/ \E b \in Browsers, create_ok \in CreateOutcomes :
       \E load_ok \in LoadOutcomes(b) :
       \E form \in FormsRead(AddForms, session[b] # <<>> /\ load_ok) :
       \E commit_ok \in CommitOutcomes(form), tick \in StrictTicks(form) :
          /\ Len(txns) < MaxTxns
          /\ AddTransaction(b, form, create_ok, load_ok, commit_ok, tick)
          /\ UNCHANGED threads
    \/ \E b \in Browsers, create_ok \in CreateOutcomes :
          /\ \E load_ok \in LoadOutcomes(b) :
             \E query_ok \in QueryOutcomes(b, load_ok),
                template_ok \in TemplateOutcomes(b, load_ok) :
                Dashboard(b, create_ok, load_ok, query_ok, template_ok)
          /\ UNCHANGED threads
    \/ \E b \in Browsers, page \in PageArgs, create_ok \in CreateOutcomes :
          /\ \E load_ok \in LoadOutcomes(b) : \E query_ok \in QueryOutcomes(b, load_ok) :
                Transactions(b, page, create_ok, load_ok, query_ok)
          /\ UNCHANGED threads
    \/ \E b \in Browsers, create_ok \in CreateOutcomes :
          /\ \E load_ok \in LoadOutcomes(b) :
             \E query_ok \in QueryOutcomes(b, load_ok),
                template_ok \in TemplateOutcomes(b, load_ok) :
                Analytics(b, create_ok, load_ok, query_ok, template_ok)
          /\ UNCHANGED threads
    \/ \E b \in Browsers, create_ok \in CreateOutcomes :
          /\ \E load_ok \in LoadOutcomes(b) : \E query_ok \in QueryOutcomes(b, load_ok) :
                Profile(b, create_ok, load_ok, query_ok)
          /\ UNCHANGED threads
    \/ /\ health_check
       /\ UNCHANGED threads
    \/ /\ \E create_ok \in CreateOutcomes : init_db_route(create_ok)
       /\ UNCHANGED threads
    \/ /\ LoginGet
       /\ UNCHANGED threads
    \/ /\ RegisterGet
       /\ UNCHANGED threads
    \/ \E b \in Browsers, create_ok \in CreateOutcomes, create_again_ok \in BOOLEAN :
          /\ \E load_ok \in LoadOutcomes(b) : landing(b, create_ok, load_ok, create_again_ok)
          /\ UNCHANGED threads
    \/ /\ \E path \in UnroutedPaths, template_ok \in BOOLEAN : NotFound(path, template_ok)
       /\ UNCHANGED threads

Spec == Init /\ [][Next]_vars


(***************************************************************************)
(* SpecPaged: the same handlers on a ledger that already fills more than   *)
(* one page.  Its initial states are what two registrations, a login and a *)
(* run of appends leave behind: row i was appended by bob when i ends in   *)
(* 5 and by alice otherwise, incomes and expenses alternate, and every     *)
(* run-th append saw the clock advance.                                    *)
(***************************************************************************)
TieRuns == {1, 2, 64}

SeedSizes == {MaxPagedTxns - 2, MaxPagedTxns - 1, 2 * PerPage + 5}

SeedUsers ==
    <<UserRow(1, BaseRegistration),
      UserRow(2, [BaseRegistration EXCEPT !.username = "bob", !.email = "b@x.io"])>>

SeedRow(i, run) ==
    TransactionRow(i,
                   IF i % 10 = 5 THEN 2 ELSE 1,
                   IF i % 2 = 1 THEN BaseIncome ELSE BaseExpense,
                   (i - 1) \div run)

SeedTxns(n, run) == [i \in 1..n |-> SeedRow(i, run)]

PagedForms == {BaseIncome, BaseExpense, [BaseIncome EXCEPT !.amount = "0"]}

PagedPageArgs == {0, 1, 2, 3, 4}

InitPaged ==
    /\ sum_compensated \in BOOLEAN
    /\ db_initialized = TRUE
    /\ users = SeedUsers
    /\ \E n \in SeedSizes, run \in TieRuns :
          /\ txns = SeedTxns(n, run)
          /\ now = (n - 1) \div run
    /\ session \in [Browsers -> {<<1>>, <<2>>}]
    /\ response = NoResponse
    /\ inflight = [w \in Workers |-> Idle]

NextPaged ==
    \/ \E b \in Browsers, create_ok \in CreateOutcomes, query_ok \in BOOLEAN :
       \E form \in FormsRead(LoginForms, query_ok) :
          /\ Login(b, form, create_ok, query_ok)
          /\ UNCHANGED threads
    \/ \E b \in Browsers, create_ok \in CreateOutcomes :
       \E load_ok \in LoadOutcomes(b) :
       \E form \in FormsRead(PagedForms, session[b] # <<>> /\ load_ok) :
       \E commit_ok \in CommitOutcomes(form), tick \in Ticks(form) :
          /\ Len(txns) < MaxPagedTxns
          /\ AddTransaction(b, form, create_ok, load_ok, commit_ok, tick)
          /\ UNCHANGED threads
    \/ \E b \in Browsers, create_ok \in CreateOutcomes :
          /\ \E load_ok \in LoadOutcomes(b) :
             \E query_ok \in QueryOutcomes(b, load_ok),
                template_ok \in TemplateOutcomes(b, load_ok) :
                Dashboard(b, create_ok, load_ok, query_ok, template_ok)
          /\ UNCHANGED threads
    \/ \E b \in Browsers, page \in PagedPageArgs, create_ok \in CreateOutcomes :
          /\ \E load_ok \in LoadOutcomes(b) : \E query_ok \in QueryOutcomes(b, load_ok) :
                Transactions(b, page, create_ok, load_ok, query_ok)
          /\ UNCHANGED threads

SpecPaged == InitPaged /\ [][NextPaged]_vars


(***************************************************************************)
(* SpecRestarted: the same handlers in a process that has just been        *)
(* started again.  _db_initialized is unset, the database file holds what  *)
(* the earlier process stored (the accounts of alice and bob, and a row or *)
(* none), and the browser still holds the session cookie it had: of alice, *)
(* of bob, of nobody, or of an account with id 3 whose row the store does  *)
(* not hold (the cookie outlives the store: under VERCEL the store is in   *)
(* memory, and a database file can be replaced).  db.create_all() may fail *)
(* each time it is called.                                                 *)
(***************************************************************************)
\* An account the store does not hold yet.
Carol == [BaseRegistration EXCEPT !.username = "carol", !.email = "c@x.io"]

RestartedRegistrations == {Carol, BaseRegistration}

\* A form whose date has a month and a day of one digit.
ShortDateForms == {[BaseIncome EXCEPT !.date = "2024-1-5"]}

\* Forms that pass, with a description, an empty one and none; forms with a
\* field missing or malformed; and the date of one-digit fields.
RestartedForms ==
    PagedForms \cup {[BaseIncome EXCEPT !.description = None]}
    \cup MalformedForms \cup ShortDateForms

InitRestarted ==
    /\ sum_compensated \in BOOLEAN
    /\ db_initialized = FALSE
    /\ users = SeedUsers
    /\ txns \in {<<>>, SeedTxns(1, 1)}
    /\ session \in [Browsers -> {<<>>, <<1>>, <<2>>, <<Len(SeedUsers) + 1>>}]
    /\ now = 0
    /\ response = NoResponse
    /\ inflight = [w \in Workers |-> Idle]

NextRestarted ==
    \/ \E form \in RestartedRegistrations, create_ok \in CreateOutcomes,
          query_ok \in BOOLEAN :
          /\ Len(users) < Len(SeedUsers) + 1
          /\ \E commit_ok \in FormsRead(BOOLEAN, query_ok) :
                Register(form, create_ok, query_ok, commit_ok)
          /\ UNCHANGED threads
    \/ \E b \in Browsers, create_ok \in CreateOutcomes, query_ok \in BOOLEAN :
       \E form \in FormsRead(LoginForms, query_ok) :
          /\ Login(b, form, create_ok, query_ok)
          /\ UNCHANGED threads
    \/ /\ \E b \in Browsers, create_ok \in CreateOutcomes :
          \E load_ok \in LoadOutcomes(b) : Logout(b, create_ok, load_ok)
       /\ UNCHANGED threads
    \/ /\ \E b \in Browsers, create_ok \in CreateOutcomes :
          \E load_ok \in LoadOutcomes(b) : AddTransactionGet(b, create_ok, load_ok)
       /\ UNCHANGED threads
    \/ \E b \in Browsers, create_ok \in CreateOutcomes :
       \E load_ok \in LoadOutcomes(b) :
       \E form \in FormsRead(RestartedForms, session[b] # <<>> /\ load_ok) :
       \E commit_ok \in CommitOutcomes(form), tick \in StrictTicks(form) :
          /\ Len(txns) < MaxTxns
          /\ AddTransaction(b, form, create_ok, load_ok, commit_ok, tick)
          /\ UNCHANGED threads
    \/ \E b \in Browsers, create_ok \in CreateOutcomes :
          /\ \E load_ok \in LoadOutcomes(b) :
             \E query_ok \in QueryOutcomes(b, load_ok),
                template_ok \in TemplateOutcomes(b, load_ok) :
                Dashboard(b, create_ok, load_ok, query_ok, template_ok)
          /\ UNCHANGED threads
    \/ \E b \in Browsers, page \in PageArgs, create_ok \in CreateOutcomes :
          /\ \E load_ok \in LoadOutcomes(b) : \E query_ok \in QueryOutcomes(b, load_ok) :
                Transactions(b, page, create_ok, load_ok, query_ok)
          /\ UNCHANGED threads
    \/ \E b \in Browsers, create_ok \in CreateOutcomes :
          /\ \E load_ok \in LoadOutcomes(b) :
             \E query_ok \in QueryOutcomes(b, load_ok),
                template_ok \in TemplateOutcomes(b, load_ok) :
                Analytics(b, create_ok, load_ok, query_ok, template_ok)
          /\ UNCHANGED threads
    \/ \E b \in Browsers, create_ok \in CreateOutcomes :
          /\ \E load_ok \in LoadOutcomes(b) : \E query_ok \in QueryOutcomes(b, load_ok) :
                Profile(b, create_ok, load_ok, query_ok)
          /\ UNCHANGED threads
    \/ /\ \E create_ok \in CreateOutcomes : init_db_route(create_ok)
       /\ UNCHANGED threads

SpecRestarted == InitRestarted /\ [][NextRestarted]_vars


(***************************************************************************)
(* SpecAmounts: the same handlers on an initialized store that holds the   *)
(* accounts of alice and bob, in a browser with alice's session.  The      *)
(* amounts are written in every way float() takes: with a fraction, with   *)
(* an exponent, with blanks around, as 2^53, as 'inf'.  The ledger grows   *)
(* to three rows, which is where the order of a sum of doubles shows.      *)
(***************************************************************************)
MaxAmountRows == 3    \* rows the transaction table may hold in SpecAmounts

AmountTexts ==
    {"0.1", "0.2", "0.3", "1", "1e3", " 10 ", "9007199254740992",
     "5.551115123125783e-17", "inf", "nan", "abc", "0", "-5"}

\* Incomes of one category and month with every amount; an income of another
\* category and month; expenses.
AmountForms ==
    {[BaseIncome EXCEPT !.amount = a] : a \in AmountTexts}
    \cup {[BaseIncome EXCEPT !.amount = a, !.category = "freelance",
                             !.date = "2023-12-31"] : a \in {"0.2", "1"}}
    \cup {[BaseExpense EXCEPT !.amount = a] : a \in {"0.3", "inf"}}

InitAmounts ==
    /\ sum_compensated \in BOOLEAN
    /\ db_initialized = TRUE
    /\ users = SeedUsers
    /\ txns = <<>>
    /\ session = [b \in Browsers |-> <<1>>]
    /\ now = 0
    /\ response = NoResponse
    /\ inflight = [w \in Workers |-> Idle]

NextAmounts ==
    \/ \E b \in Browsers, form \in AmountForms :
          /\ Len(txns) < MaxAmountRows
          /\ AddTransaction(b, form, TRUE, TRUE, TRUE, 1)
          /\ UNCHANGED threads
    \/ \E b \in Browsers :
          /\ Dashboard(b, TRUE, TRUE, TRUE, TRUE)
          /\ UNCHANGED threads
    \/ \E b \in Browsers, page \in PageArgs :
          /\ Transactions(b, page, TRUE, TRUE, TRUE)
          /\ UNCHANGED threads
    \/ \E b \in Browsers, template_ok \in BOOLEAN :
          /\ Analytics(b, TRUE, TRUE, TRUE, template_ok)
          /\ UNCHANGED threads
    \/ \E b \in Browsers :
          /\ Profile(b, TRUE, TRUE, TRUE)
          /\ UNCHANGED threads

SpecAmounts == InitAmounts /\ [][NextAmounts]_vars


(***************************************************************************)
(* SpecConcurrent: the handlers served by two threads at once (the server  *)
(* app.run() starts is threaded), each thread serving one request, with    *)
(* the steps of the two interleaved in any order.  A step is one access to *)
(* the flag _db_initialized or one statement run against the store         *)
(* together with the local computation around it; a SELECT is two steps,   *)
(* the statement's start and the fetch of its rows, and between the two    *)
(* the thread's connection holds SQLite's shared lock when the statement   *)
(* has a row to give.  A statement that has to wait for a lock is a step   *)
(* that is taken after the lock is released, or, when sqlite3's timeout    *)
(* passes first, a step that raises 'database is locked'.  The process has *)
(* just started or has served requests before; the store holds the         *)
(* accounts of alice and bob, alice's session is in browser b1 and bob's   *)
(* in browser b2.  The store is healthy: db.create_all() and the           *)
(* statements raise only for what another thread does (a store that fails  *)
(* is in Spec).                                                            *)
(***************************************************************************)
ConcurrentBrowsers == {"b1", "b2"}

\* The threads that take requests in SpecConcurrent.
ConcurrentWorkers == {"w1", "w2"}

ConcurrentForms == {BaseIncome, BaseExpense, [BaseIncome EXCEPT !.amount = "0"]}

\* The requests that write: registrations, and appends of alice and of bob.
WriteRequests ==
    {[op |-> "register", b |-> "b1", form |-> f, page |-> 1, template_ok |-> TRUE] :
        f \in {Carol, [Carol EXCEPT !.email = "d@x.io"], BaseRegistration}}
    \cup {[op |-> "add_transaction", b |-> b, form |-> f, page |-> 1,
            template_ok |-> TRUE] : b \in ConcurrentBrowsers, f \in ConcurrentForms}

\* The requests that read, of alice and of bob.  template_ok: the request's
\* template renders (analytics has a page of its own for when analytics.html
\* does not; the other pages render in SpecConcurrent).
ReadRequests ==
    {[op |-> op, b |-> b, form |-> BaseIncome, page |-> 1, template_ok |-> TRUE] :
        op \in {"transactions", "dashboard", "profile", "analytics"},
        b \in ConcurrentBrowsers}
    \cup {[op |-> "analytics", b |-> b, form |-> BaseIncome, page |-> 1,
            template_ok |-> FALSE] : b \in ConcurrentBrowsers}

ConcurrentRequests == WriteRequests \cup ReadRequests

\* What a thread has read so far, before it has read anything.
NothingRead ==
    [list |-> <<>>, total |-> 0, income |-> Whole(0), expense |-> Whole(0),
     income_by_category |-> {}, expense_by_category |-> {}, monthly_data |-> <<>>]

\* The thread's locals at the start of a request: after says who called
\* ensure_db, user is current_user, created_at is the clock the thread read
\* for its row, k counts the reads of the body, open says that the thread's
\* SELECT has started and its rows are not fetched yet, held that the SELECT
\* has a row to give.
Locals(req, after) ==
    [pc |-> "check_flag", req |-> req, after |-> after, user |-> <<>>,
     created_at |-> 0, k |-> 0, seen |-> NothingRead, open |-> FALSE,
     held |-> FALSE]

\* The thread returns resp to its caller.
Answer(w, resp) ==
    /\ inflight' = [inflight EXCEPT ![w] = [pc |-> "done", req |-> @.req, resp |-> resp]]
    /\ response' = resp

Goto(w, pc) ==
    /\ inflight' = [inflight EXCEPT ![w].pc = pc]
    /\ UNCHANGED response

\* A thread takes a request: login_required turns an anonymous one away,
\* loads the user otherwise; register calls ensure_db itself.
Start(w, req) ==
    /\ inflight[w].pc = "idle"
    /\ UNCHANGED <<db_initialized, users, txns, session, now, sum_compensated>>
    /\ IF req.op = "register"
       THEN /\ inflight' = [inflight EXCEPT ![w] = Locals(req, "handler")]
            /\ UNCHANGED response
       ELSE IF session[req.b] = <<>>
       THEN /\ inflight' = [inflight EXCEPT ![w] =
                                 [pc |-> "done", req |-> req, resp |-> Unauthorized(req.op)]]
            /\ response' = Unauthorized(req.op)
       ELSE /\ inflight' = [inflight EXCEPT ![w] = Locals(req, "load_user")]
            /\ UNCHANGED response

\* ensure_db:  if not _db_initialized
CheckFlag(w) ==
    /\ inflight[w].pc = "check_flag"
    /\ UNCHANGED <<db_initialized, users, txns, session, now, sum_compensated>>
    /\ Goto(w, IF db_initialized THEN "return_flag" ELSE "create_all")

\* SQLite's write lock (RESERVED): a thread holds it from its INSERT until
\* its COMMIT returns or, when the COMMIT raised, until the rollback of the
\* except branch.
write_locked(w) ==
    \E v \in Workers \ {w} :
        inflight[v].pc \in {"commit", "commit_user", "rollback", "rollback_user"}

\* SQLite's PENDING lock: a COMMIT takes it on top of the write lock, and a
\* COMMIT that raised keeps it until the rollback.  It keeps every other
\* connection from starting a statement.
pending_locked(w) ==
    \E v \in Workers \ {w} : inflight[v].pc \in {"rollback", "rollback_user"}

\* SQLite's shared lock: it is held against w's COMMIT while another thread
\* has a SELECT open that has a row to give.  A SELECT that returns no row
\* is finished when it has started and holds nothing.
read_locked(w) ==
    \E v \in Workers \ {w} :
        /\ inflight[v].pc \in {"select_user", "query_existing", "read"}
        /\ inflight[v].open
        /\ inflight[v].held

\* ensure_db:  db.create_all()  (the tables exist: it reads the schema, and
\* the rows stay).  While another thread holds the PENDING lock the read
\* raises and the except branch leaves the flag unset.
CreateAll(w, create_ok) ==
    /\ inflight[w].pc = "create_all"
    /\ UNCHANGED <<db_initialized, users, txns, session, now, sum_compensated>>
    /\ Goto(w, IF create_ok /\ ~pending_locked(w) THEN "set_flag" ELSE "return_flag")

\* ensure_db:  _db_initialized = True
SetFlag(w) ==
    /\ inflight[w].pc = "set_flag"
    /\ db_initialized' = TRUE
    /\ UNCHANGED <<users, txns, session, now, sum_compensated>>
    /\ Goto(w, "return_flag")

\* The first statement of a handler's body.
BodyStart(op) ==
    CASE op = "register"        -> "query_existing"
      [] op = "add_transaction" -> "utcnow"
      [] OTHER                  -> "read"

\* ensure_db:  return _db_initialized , and what its caller does with the
\* value: load_user returns None or goes on to look the user up; the handler
\* goes on to its body.
ReturnFlag(w) ==
    LET me  == inflight[w]
        req == me.req
    IN  /\ me.pc = "return_flag"
        /\ UNCHANGED <<db_initialized, users, txns, session, now, sum_compensated>>
        /\ IF me.after = "load_user"
           THEN IF ~db_initialized
                THEN Answer(w, Unauthorized(req.op))
                ELSE Goto(w, "select_user")
           ELSE IF ~db_initialized
           THEN Answer(w, IF req.op = "dashboard"
                          THEN View("dashboard", me.user[1], dashboard_fallback)
                          ELSE Page(req.op, "Database Error"))
           ELSE Goto(w, BodyStart(req.op))

\* register:  all([first_name, last_name, username, email, password])
all_fields(form) ==
    /\ Truthy(form.first_name) /\ Truthy(form.last_name)
    /\ Truthy(form.username) /\ Truthy(form.email)
    /\ Truthy(form.password)

\* The statement a thread is about to run is a SELECT.
AtSelect(me) ==
    \/ me.pc \in {"select_user", "read"}
    \/ me.pc = "query_existing" /\ all_fields(me.req.form)

\* The body's queries with the totals read before the list.
body_reads_totals_first(op) ==
    CASE op = "transactions" -> <<"income", "expense", "list", "count">>
      [] op = "dashboard"    -> <<"income", "expense", "list">>
      [] op = "analytics"    -> <<"income_by_category", "expense_by_category",
                                  "monthly_data">>
      [] op = "profile"      -> <<"count", "income", "expense">>

\* The queries of the body of a read handler, in the order of their
\* statements; paginate selects the items of the page and then counts the
\* rows.
body_reads(op) ==
    CASE op = "transactions" -> <<"list", "count", "income", "expense">>
      [] op = "dashboard"    -> <<"list", "income", "expense">>
      [] op = "analytics"    -> <<"income_by_category", "expense_by_category",
                                  "monthly_data">>
      [] op = "profile"      -> <<"count", "income", "expense">>

\* The Pagination object of the items and the count that were read.
pagination(items, total, page) ==
    LET p     == IF page < 1 THEN 1 ELSE page
        pages == (total + PerPage - 1) \div PerPage
    IN  [items    |-> items,
         page     |-> p,
         total    |-> total,
         has_prev |-> p > 1,
         has_next |-> p < pages]

\* What one query of a body returns for an owner against a table.
select(what, op, rows, uid, page) ==
    CASE what = "list" ->
           IF op = "transactions" THEN transactions_page(rows, uid, page).items
           ELSE recent_transactions(rows, uid)
      [] what = "count"               -> Len(filter_by_user(rows, uid))
      [] what = "income"              -> total_by_kind(rows, uid, "income")
      [] what = "expense"             -> total_by_kind(rows, uid, "expense")
      [] what = "income_by_category"  -> by_category(rows, uid, "income")
      [] what = "expense_by_category" -> by_category(rows, uid, "expense")
      [] what = "monthly_data"        -> monthly_data(rows, uid)

\* The local a query's result is bound to.
Bound(seen, what, value) ==
    CASE what = "list"                -> [seen EXCEPT !.list = value]
      [] what = "count"               -> [seen EXCEPT !.total = value]
      [] what = "income"              -> [seen EXCEPT !.income = value]
      [] what = "expense"             -> [seen EXCEPT !.expense = value]
      [] what = "income_by_category"  -> [seen EXCEPT !.income_by_category = value]
      [] what = "expense_by_category" -> [seen EXCEPT !.expense_by_category = value]
      [] what = "monthly_data"        -> [seen EXCEPT !.monthly_data = value]

\* The SELECT a thread is about to run has a row to give: the user's row,
\* a row with the handle or the address, a row of the list or of the groups;
\* a count or a sum without groups always gives one row.
has_row(me) ==
    CASE me.pc = "select_user"    -> load_user(me.req.b, TRUE, TRUE) # <<>>
      [] me.pc = "query_existing" ->
            existing_user(me.req.form.username, me.req.form.email)
      [] me.pc = "read" ->
            LET what == body_reads(me.req.op)[me.k + 1]
            IN  \/ what \in {"count", "income", "expense"}
                \/ select(what, me.req.op, txns, me.user[1], me.req.page)
                      # select(what, me.req.op, <<>>, me.user[1], me.req.page)

\* What the caller of a SELECT that raised answers: load_user returns None
\* (53-62), register answers from its except branch, dashboard renders the
\* page of zeros, the other read handlers answer 'System Error'.
select_raised(me) ==
    CASE me.pc = "select_user"    -> Unauthorized(me.req.op)
      [] me.pc = "query_existing" -> Page("register", "Registration Error")
      [] me.pc = "read" ->
            IF me.req.op = "dashboard"
            THEN View("dashboard", me.user[1], dashboard_fallback)
            ELSE Page(me.req.op, "System Error")

\* A SELECT starts.  With a row to give, the connection takes SQLite's
\* shared lock and holds it until the rows are fetched; with none, the
\* statement is finished and its result is no row, whatever is committed
\* before the fetch.  Another thread's uncommitted INSERT does not keep it
\* waiting, and it does not see that row.  While another thread holds the
\* PENDING lock the SELECT waits (the step is not taken) until sqlite3's
\* timeout passes, and then raises 'database is locked'.
OpenSelect(w) ==
    LET me == inflight[w]
    IN  /\ AtSelect(me)
        /\ ~me.open
        /\ UNCHANGED <<db_initialized, users, txns, session, now, sum_compensated>>
        /\ IF pending_locked(w)
           THEN Answer(w, select_raised(me))
           ELSE /\ inflight' = [inflight EXCEPT ![w].open = TRUE,
                                                ![w].held = has_row(me)]
                /\ UNCHANGED response

\* load_user:  User.query.get(int(user_id)) ; with a user the handler runs
\* and calls ensure_db again.
SelectUser(w) ==
    LET me   == inflight[w]
        req  == me.req
        user == IF me.held THEN load_user(req.b, TRUE, TRUE) ELSE <<>>
    IN  /\ me.pc = "select_user"
        /\ me.open
        /\ UNCHANGED <<db_initialized, users, txns, session, now, sum_compensated>>
        /\ IF user = <<>>
           THEN Answer(w, Unauthorized(req.op))
           ELSE /\ inflight' = [inflight EXCEPT ![w] =
                                    [me EXCEPT !.pc = "check_flag",
                                               !.after = "handler",
                                               !.user = user,
                                               !.open = FALSE,
                                               !.held = FALSE]]
                /\ UNCHANGED response

\* register: the fields and the query for an existing user
QueryExisting(w) ==
    LET me   == inflight[w]
        form == me.req.form
    IN  /\ me.pc = "query_existing"
        /\ me.open \/ ~all_fields(form)
        /\ UNCHANGED <<db_initialized, users, txns, session, now, sum_compensated>>
        /\ IF ~all_fields(form)
           THEN Answer(w, Page("register", "All fields are required"))
           ELSE IF me.held
           THEN Answer(w, Page("register", "Username or email already exists"))
           ELSE /\ inflight' = [inflight EXCEPT ![w] =
                                    [me EXCEPT !.pc = "insert_user", !.open = FALSE]]
                /\ UNCHANGED response

\* register: db.session.add(user) and the flush of db.session.commit(), which
\* sends the INSERT.  While another thread holds the write lock the INSERT
\* waits (the step is not taken) until sqlite3's timeout passes, and then
\* raises 'database is locked' (the step is taken while the lock is held);
\* the unique=True constraints are checked by the INSERT.  Every failure is
\* answered by the except branch.
InsertUser(w, insert_ok) ==
    LET form == inflight[w].req.form
    IN  /\ inflight[w].pc = "insert_user"
        /\ UNCHANGED <<db_initialized, users, txns, session, now, sum_compensated>>
        /\ IF write_locked(w)
           THEN Answer(w, Page("register", "Registration Error"))
           ELSE IF insert_ok /\ ~unique_violation(form.username, form.email)
           THEN Goto(w, "commit_user")
           ELSE Answer(w, Page("register", "Registration Error"))

\* register: the COMMIT of db.session.commit(), which makes the row visible
\* and releases the write lock.  It needs the exclusive lock: while another
\* thread holds the shared lock the COMMIT waits (the step is not taken)
\* until sqlite3's timeout passes, and then raises 'database is locked' (the
\* step is taken while the lock is held) and the thread enters the except
\* branch with its locks.
CommitUser(w) ==
    LET form == inflight[w].req.form
    IN  /\ inflight[w].pc = "commit_user"
        /\ UNCHANGED <<db_initialized, txns, session, now, sum_compensated>>
        /\ IF read_locked(w)
           THEN /\ UNCHANGED users
                /\ Goto(w, "rollback_user")
           ELSE /\ users' = Append(users, NewUser(form))
                /\ Answer(w, Page("register", "Registration successful!"))

\* register, except:  db.session.rollback() , which releases the locks, and
\* the answer.
RollbackUser(w) ==
    /\ inflight[w].pc = "rollback_user"
    /\ UNCHANGED <<db_initialized, users, txns, session, now, sum_compensated>>
    /\ Answer(w, Page("register", "Registration Error"))

\* add_transaction: the checks of the form, then db.session.add and the
\* flush of the commit, which takes the default of created_at from
\* datetime.utcnow() before the INSERT is sent.
ReadClock(w, tick) ==
    LET me   == inflight[w]
        form == me.req.form
    IN  /\ me.pc = "utcnow"
        /\ UNCHANGED <<db_initialized, users, txns, session, sum_compensated>>
        /\ IF form_error(form) # ""
           THEN /\ Answer(w, Page("add_transaction", form_error(form)))
                /\ UNCHANGED now
           ELSE /\ now' = now + tick
                /\ inflight' = [inflight EXCEPT ![w] =
                                    [me EXCEPT !.pc = "insert", !.created_at = now + tick]]
                /\ UNCHANGED response

\* add_transaction: the INSERT that the flush of db.session.commit() sends.
\* It takes the write lock; while another thread holds the lock it waits (the
\* step is not taken) until sqlite3's timeout passes, and then raises
\* 'database is locked' (the step is taken while the lock is held).  The NOT
\* NULL constraint is checked by the INSERT.  Every failure is answered by
\* the except branch.
Insert(w, insert_ok) ==
    LET me   == inflight[w]
        form == me.req.form
    IN  /\ me.pc = "insert"
        /\ UNCHANGED <<db_initialized, users, txns, session, now, sum_compensated>>
        /\ IF write_locked(w)
           THEN Answer(w, Page("add_transaction", "Transaction Error"))
           ELSE IF commit_succeeds(form, insert_ok)
           THEN Goto(w, "commit")
           ELSE Answer(w, Page("add_transaction", "Transaction Error"))

\* add_transaction: the COMMIT of db.session.commit(), which makes the row
\* visible and releases the write lock; then the redirect.  No other thread
\* wrote since the INSERT, so the id the INSERT took is still the next one.
\* While another thread holds the shared lock the COMMIT waits (the step is
\* not taken) until sqlite3's timeout passes, and then raises 'database is
\* locked' (the step is taken while the lock is held) and the thread enters
\* the except branch with its locks.
Commit(w) ==
    LET me   == inflight[w]
        form == me.req.form
    IN  /\ me.pc = "commit"
        /\ UNCHANGED <<db_initialized, users, session, now, sum_compensated>>
        /\ IF read_locked(w)
           THEN /\ UNCHANGED txns
                /\ Goto(w, "rollback")
           ELSE /\ txns' = Append(txns, NewTransaction(me.user[1], form, me.created_at))
                /\ Answer(w, Redirect("add_transaction", "dashboard"))

\* add_transaction, except:  db.session.rollback() , which releases the
\* locks, and the answer.
Rollback(w) ==
    /\ inflight[w].pc = "rollback"
    /\ UNCHANGED <<db_initialized, users, txns, session, now, sum_compensated>>
    /\ Answer(w, Page("add_transaction", "Transaction Error"))

\* The page a read handler renders from what it has read.
render(req, uid, seen) ==
    CASE req.op = "transactions" ->
           View("transactions", uid,
                [items          |-> seen.list,
                 page           |-> pagination(seen.list, seen.total, req.page).page,
                 has_prev       |-> pagination(seen.list, seen.total, req.page).has_prev,
                 has_next       |-> pagination(seen.list, seen.total, req.page).has_next,
                 total_income   |-> seen.income,
                 total_expenses |-> seen.expense,
                 net_income     |-> float_sub(seen.income, seen.expense)])
      [] req.op = "dashboard" ->
           View("dashboard", uid,
                [transactions  |-> seen.list,
                 total_income  |-> seen.income,
                 total_expense |-> seen.expense,
                 balance       |-> float_sub(seen.income, seen.expense)])
      [] req.op = "profile" ->
           View("profile", uid,
                [total_transactions |-> seen.total,
                 total_income       |-> seen.income,
                 total_expense      |-> seen.expense,
                 net_balance        |-> float_sub(seen.income, seen.expense),
                 username           |-> users[uid].username,
                 email              |-> users[uid].email])
      [] req.op = "analytics" ->
           IF req.template_ok
           THEN View("analytics", uid,
                     [income_by_category  |-> seen.income_by_category,
                      expense_by_category |-> seen.expense_by_category,
                      monthly_data        |-> seen.monthly_data])
           ELSE [route |-> "analytics", body |-> "fallback", user |-> uid,
                 data  |-> fallback_html(seen.income_by_category,
                                         seen.expense_by_category)]

\* A read handler: the rows of the next query of the body are fetched; the
\* page is rendered after the last.
Read(w) ==
    LET me   == inflight[w]
        op   == me.req.op
        uid  == me.user[1]
        what == body_reads(op)[me.k + 1]
        rows == IF me.held THEN txns ELSE <<>>
        seen == Bound(me.seen, what, select(what, op, rows, uid, me.req.page))
    IN  /\ me.pc = "read"
        /\ me.open
        /\ UNCHANGED <<db_initialized, users, txns, session, now, sum_compensated>>
        /\ IF me.k + 1 < Len(body_reads(op))
           THEN /\ inflight' = [inflight EXCEPT ![w] =
                                    [me EXCEPT !.k = me.k + 1, !.seen = seen,
                                               !.open = FALSE, !.held = FALSE]]
                /\ UNCHANGED response
           ELSE Answer(w, render(me.req, uid, seen))

\* The store holds no row, one row, or rows that fill alice's first page.
ConcurrentSeedSizes == {0, 1, PerPage + 2}

InitConcurrent ==
    /\ sum_compensated \in BOOLEAN
    /\ db_initialized \in BOOLEAN
    /\ users = SeedUsers
    /\ \E n \in ConcurrentSeedSizes :
          /\ txns = SeedTxns(n, 1)
          /\ now = IF n = 0 THEN 0 ELSE n - 1
    /\ session = [b \in ConcurrentBrowsers |-> IF b = "b1" THEN <<1>> ELSE <<2>>]
    /\ response = NoResponse
    /\ inflight = [w \in Workers |-> Idle]

NextConcurrent ==
    \/ \E w \in ConcurrentWorkers, req \in ConcurrentRequests : Start(w, req)
    \/ \E w \in Workers : CheckFlag(w)
    \/ \E w \in Workers : CreateAll(w, TRUE)
    \/ \E w \in Workers : SetFlag(w)
    \/ \E w \in Workers : ReturnFlag(w)
    \/ \E w \in Workers : OpenSelect(w)
    \/ \E w \in Workers : SelectUser(w)
    \/ \E w \in Workers : QueryExisting(w)
    \/ \E w \in Workers : InsertUser(w, TRUE)
    \/ \E w \in Workers : CommitUser(w)
    \/ \E w \in Workers : RollbackUser(w)
    \/ \E w \in Workers, tick \in {0, 1} : ReadClock(w, tick)
    \/ \E w \in Workers : Insert(w, TRUE)
    \/ \E w \in Workers : Commit(w)
    \/ \E w \in Workers : Rollback(w)
    \/ \E w \in Workers : Read(w)

SpecConcurrent == InitConcurrent /\ [][NextConcurrent]_vars

(***************************************************************************)
(* SpecContended: two registrations of carol served at once while a third  *)
(* thread serves alice's dashboard, on a store that is initialized.  The   *)
(* dashboard's SELECTs hold the shared lock that a COMMIT has to wait for.  *)
(***************************************************************************)
ContendedRequests(w) ==
    IF w \in ConcurrentWorkers
    THEN {[op |-> "register", b |-> "b1", form |-> f, page |-> 1, template_ok |-> TRUE] :
             f \in {Carol, [Carol EXCEPT !.email = "d@x.io"]}}
    ELSE {[op |-> "dashboard", b |-> "b1", form |-> BaseIncome, page |-> 1,
           template_ok |-> TRUE]}

InitContended ==
    /\ sum_compensated \in BOOLEAN
    /\ db_initialized = TRUE
    /\ users = SeedUsers
    /\ txns = SeedTxns(1, 1)
    /\ now = 0
    /\ session = [b \in ConcurrentBrowsers |-> IF b = "b1" THEN <<1>> ELSE <<2>>]
    /\ response = NoResponse
    /\ inflight = [w \in Workers |-> Idle]

NextContended ==
    \/ \E w \in Workers : \E req \in ContendedRequests(w) : Start(w, req)
    \/ \E w \in Workers : CheckFlag(w)
    \/ \E w \in Workers : ReturnFlag(w)
    \/ \E w \in Workers : OpenSelect(w)
    \/ \E w \in Workers : SelectUser(w)
    \/ \E w \in Workers : QueryExisting(w)
    \/ \E w \in Workers : InsertUser(w, TRUE)
    \/ \E w \in Workers : CommitUser(w)
    \/ \E w \in Workers : RollbackUser(w)
    \/ \E w \in Workers : Read(w)

SpecContended == InitContended /\ [][NextContended]_vars


(***************************************************************************)
(* Definitions the claims share.  They state what a result should be       *)
(* without going through the queries of the handlers.                      *)
(***************************************************************************)
Registered == 1..Len(users)

Kinds == {"income", "expense"}

\* The ids of the rows of an owner, and of an owner and a kind.
OwnIds(uid) == {i \in 1..Len(txns) : txns[i].user_id = uid}

OwnKindIds(uid, kind) == {i \in OwnIds(uid) : txns[i].type = kind}

\* The exact sum of the magnitudes of some doubles, none negative.
RECURSIVE ExactSum(_)
ExactSum(ds) ==
    IF ds = <<>> THEN {} ELSE MagAdd(Magnitude(ds[1]), ExactSum(Tail(ds)))

RECURSIVE WholeSum(_)
WholeSum(ds) == IF ds = <<>> THEN 0 ELSE ds[1].n + WholeSum(Tail(ds))

\* The sum of some amounts as a sum is in mathematics, in no order: the
\* exact sum, and of it the most a double can hold (the exact sum rounded
\* once).  Amounts are positive, and an infinite one makes the sum infinite.
SumOf(ds) ==
    IF \E k \in 1..Len(ds) : ds[k].cls = "inf" THEN Infinity(FALSE)
    ELSE IF (\A k \in 1..Len(ds) : ds[k].cls = "whole") /\ WholeSum(ds) < SmallLimit
    THEN Whole(WholeSum(ds))
    ELSE Canonical(FALSE, RoundEven(ExactSum(ds)))

\* The rows of a set of ids, in some order.
RECURSIVE InSomeOrder(_)
InSomeOrder(ids) ==
    IF ids = {} THEN <<>>
    ELSE LET i == CHOOSE x \in ids : TRUE
         IN  <<txns[i].amount>> \o InSomeOrder(ids \ {i})

\* The sum of the amounts of a set of rows, whatever their order.
AmountsOf(ids) == SumOf(InSomeOrder(ids))

\* A form whose amount parses to a number that is zero or negative.
NonPositive(form) ==
    /\ form.amount # None
    /\ ~float(form.amount).err
    /\ float_le0(float(form.amount).val)

\* Some /add_transaction POST of a form of the set takes this step.
AddsOneOf(forms) ==
    \E b \in Browsers, form \in forms, create_ok \in BOOLEAN, load_ok \in BOOLEAN,
       commit_ok \in BOOLEAN, tick \in {0, 1} :
       AddTransaction(b, form, create_ok, load_ok, commit_ok, tick)

(***************************************************************************)
(* C1: every stored Transaction has amount > 0, and no step that changes   *)
(* the transaction table is the POST of a form whose amount is zero or     *)
(* negative, whatever its kind, category and date (such a POST stores      *)
(* nothing).                                                               *)
(***************************************************************************)
C1_AmountPositive ==
    /\ [](\A i \in 1..Len(txns) : float_gt0(txns[i].amount))
    /\ [][txns' # txns => ~AddsOneOf({f \in AddForms : NonPositive(f)})]_vars

\* A non-positive amount was turned away while the ledger holds rows.
C1_Witness ==
    /\ response = Page("add_transaction", "Amount must be positive")
    /\ txns # <<>>

(***************************************************************************)
(* C2: every stored Transaction of kind income or expense has a category   *)
(* of the Category Catalog list of its kind (an append with any other      *)
(* category, such as 'salary' with kind 'expense', stores nothing).        *)
(***************************************************************************)
C2_CategoryInCatalog ==
    \A i \in 1..Len(txns) :
        txns[i].type \in Kinds => txns[i].category \in validCategories(txns[i].type)

(***************************************************************************)
(* C3: every stored Transaction has kind 'income' or 'expense'.            *)
(***************************************************************************)
C3_KindEnumerated == \A i \in 1..Len(txns) : txns[i].type \in Kinds


\* Everything the read handlers show a user, computed over a table.
ViewsOn(rows, uid) ==
    [dashboard    |-> dashboard_view(rows, uid),
     transactions |-> [p \in PageArgs \cup PagedPageArgs |-> transactions_view(rows, uid, p)],
     analytics    |-> analytics_view(rows, uid),
     profile      |-> profile_view(rows, uid)]

\* The page the dashboard renders when its queries raise: it shows no row
\* of anyone (whether it may be shown at all is C13's question).
ShowsNothing(resp) == resp.route = "dashboard" /\ resp.data = dashboard_fallback

(***************************************************************************)
(* C5: for every owner, with I the sum of the owner's income rows and E    *)
(* the sum of the owner's expense rows, summed as sets (so in no order),   *)
(* dashboard, transactions and profile all report income I, expense E and  *)
(* net I - E; a kind without rows counts 0.  (The page the dashboard shows  *)
(* when its queries raise is no balance of the store: see C13.)            *)
(***************************************************************************)
BalanceIs(income, expense, net, uid) ==
    /\ income = AmountsOf(OwnKindIds(uid, "income"))
    /\ expense = AmountsOf(OwnKindIds(uid, "expense"))
    /\ net = float_sub(AmountsOf(OwnKindIds(uid, "income")),
                     AmountsOf(OwnKindIds(uid, "expense")))

BalanceShown(resp) ==
    CASE resp.route = "dashboard" ->
            \/ BalanceIs(resp.data.total_income, resp.data.total_expense,
                         resp.data.balance, resp.user)
            \/ ShowsNothing(resp)
      [] resp.route = "transactions" ->
            BalanceIs(resp.data.total_income, resp.data.total_expenses,
                      resp.data.net_income, resp.user)
      [] resp.route = "profile" ->
            BalanceIs(resp.data.total_income, resp.data.total_expense,
                      resp.data.net_balance, resp.user)
      [] OTHER -> TRUE

C5_Balance ==
    /\ \A u \in Registered :
          LET v == ViewsOn(txns, u)
          IN  /\ BalanceIs(v.dashboard.total_income, v.dashboard.total_expense,
                           v.dashboard.balance, u)
              /\ BalanceIs(v.transactions[1].total_income, v.transactions[1].total_expenses,
                           v.transactions[1].net_income, u)
              /\ BalanceIs(v.profile.total_income, v.profile.total_expense,
                           v.profile.net_balance, u)
    /\ response.body = "view" => BalanceShown(response)

(***************************************************************************)
(* C6: the category breakdown of an owner and a kind has exactly one entry *)
(* for each category in which the owner has a row of that kind and no      *)
(* other entry, each entry's total is the sum of those rows, and the       *)
(* totals add up to the balance total of the kind.                         *)
(***************************************************************************)
\* The totals of a set of entries, in some order.
RECURSIVE TotalsInSomeOrder(_)
TotalsInSomeOrder(entries) ==
    IF entries = {} THEN <<>>
    ELSE LET e == CHOOSE x \in entries : TRUE
         IN  <<e.total>> \o TotalsInSomeOrder(entries \ {e})

TotalsOf(entries) == SumOf(TotalsInSomeOrder(entries))

BreakdownOK(bd, uid, kind) ==
    LET cats == {txns[i].category : i \in OwnKindIds(uid, kind)}
    IN  /\ {e.category : e \in bd} = cats
        /\ Cardinality(bd) = Cardinality(cats)
        /\ \A e \in bd :
              e.total = AmountsOf({i \in OwnKindIds(uid, kind) :
                                      txns[i].category = e.category})
        /\ TotalsOf(bd) = total_by_kind(txns, uid, kind)

C6_CategoryBreakdown ==
    /\ \A u \in Registered, kind \in Kinds : BreakdownOK(by_category(txns, u, kind), u, kind)
    /\ (response.body = "view" /\ response.route = "analytics") =>
          /\ BreakdownOK(response.data.income_by_category, response.user, "income")
          /\ BreakdownOK(response.data.expense_by_category, response.user, "expense")
    /\ (response.body = "fallback" /\ response.route = "analytics") =>
          LET items == response.data.html_items
              cats(kind) == {txns[i].category : i \in OwnKindIds(response.user, kind)}
              line(kind, c) ==
                  c \o ": Rs."
                    \o format_2f(AmountsOf({i \in OwnKindIds(response.user, kind) :
                                               txns[i].category = c}))
          IN  /\ Len(items) = Cardinality(cats("income")) + Cardinality(cats("expense"))
              /\ \A c \in cats("income") :
                    \E k \in 1..Cardinality(cats("income")) : items[k] = line("income", c)
              /\ \A c \in cats("expense") :
                    \E k \in (Cardinality(cats("income")) + 1)..Len(items) :
                        items[k] = line("expense", c)

(***************************************************************************)
(* C7: the monthly trend of an owner has one entry for each (year-month,   *)
(* kind) in which the owner has a row and none for any other, each total   *)
(* is the sum of those rows, the entries are in ascending order of         *)
(* year-month, and per kind the totals add up to the balance total.        *)
(***************************************************************************)
YearMonth(i) == <<txns[i].date[1], txns[i].date[2]>>

MonthNumber(ym) == ym[1] * 12 + ym[2]

TrendOK(md, uid) ==
    /\ {<<md[k].month, md[k].type>> : k \in 1..Len(md)}
          = {<<YearMonth(i), txns[i].type>> : i \in OwnIds(uid)}
    /\ \A j, k \in 1..Len(md) :
          /\ (j # k => <<md[j].month, md[j].type>> # <<md[k].month, md[k].type>>)
          /\ (j < k => MonthNumber(md[j].month) <= MonthNumber(md[k].month))
    /\ \A k \in 1..Len(md) :
          md[k].total = AmountsOf({i \in OwnIds(uid) :
                                      YearMonth(i) = md[k].month /\ txns[i].type = md[k].type})
    /\ \A kind \in Kinds :
          TotalsOf({[k |-> k, total |-> md[k].total] :
                       k \in {j \in 1..Len(md) : md[j].type = kind}})
             = total_by_kind(txns, uid, kind)

C7_MonthlyTrend ==
    /\ \A u \in Registered : TrendOK(monthly_data(txns, u), u)
    /\ (response.body = "view" /\ response.route = "analytics") =>
          TrendOK(response.data.monthly_data, response.user)

(***************************************************************************)
(* C8: against an unchanged table, the pages 1, 2, ... of an owner's       *)
(* /transactions list, put end to end, hold every row of the owner exactly *)
(* once, with creation timestamps never increasing, also when rows share   *)
(* a creation timestamp; and the page a request is shown is its slice of   *)
(* that sequence.                                                          *)
(***************************************************************************)
RECURSIVE PagesFrom(_, _, _)
PagesFrom(uid, p, last) ==
    IF p > last THEN <<>>
    ELSE transactions_page(txns, uid, p).items \o PagesFrom(uid, p + 1, last)

\* One page more than the table could fill.
AllPages(uid) == PagesFrom(uid, 1, Len(txns) \div PerPage + 2)

EveryRowOnce(all, uid) ==
    /\ Len(all) = Cardinality(OwnIds(uid))
    /\ {all[k].id : k \in 1..Len(all)} = OwnIds(uid)
    /\ \A k \in 1..Len(all) : all[k] = txns[all[k].id]
    /\ \A j, k \in 1..Len(all) : j < k => all[j].created_at >= all[k].created_at

C8_PagesExhaustive ==
    /\ \A u \in Registered : EveryRowOnce(AllPages(u), u)
    /\ (response.body = "view" /\ response.route = "transactions") =>
          LET all == AllPages(response.user)
              p   == response.data.page
          IN  response.data.items =
                 SubSeq(all, (p - 1) * PerPage + 1, Min(p * PerPage, Len(all)))

\* Page 2 is shown, and its first row has the creation timestamp of the last
\* row of page 1.
C8_Witness ==
    /\ response.body = "view"
    /\ response.route = "transactions"
    /\ response.data.page = 2
    /\ response.data.items # <<>>
    /\ LET page1 == transactions_page(txns, response.user, 1).items
       IN  page1[Len(page1)].created_at = response.data.items[1].created_at

(***************************************************************************)
(* C9: when a valid form (kind income or expense, amount > 0, category of  *)
(* the kind's catalog list, a calendar date) is appended, page 1 of the    *)
(* owner's list right after the step holds the new record, with kind,      *)
(* amount, category, description, effective date and owner as submitted.   *)
(***************************************************************************)
ValidForm(form) ==
    /\ form.type \in Kinds
    /\ form.category \in validCategories(form.type)
    /\ form.amount # None /\ ~float(form.amount).err /\ float_gt0(float(form.amount).val)
    /\ strptime(form.date) # <<>>

Submitted(row, form, uid) ==
    /\ row.user_id = uid
    /\ row.type = form.type
    /\ row.amount = float(form.amount).val
    /\ row.category = form.category
    /\ row.description = form.description
    /\ row.date = DateFields(form.date)

C9_AppendThenListed ==
    [][\A b \in Browsers, form \in {f \in AddForms \cup PagedForms : ValidForm(f)},
          tick \in {0, 1} :
          (AddTransaction(b, form, TRUE, TRUE, TRUE, tick) /\ txns' # txns) =>
             LET page1 == transactions_page(txns', session[b][1], 1).items
             IN  \E k \in 1..Len(page1) :
                    /\ page1[k].id = Len(txns')
                    /\ Submitted(page1[k], form, session[b][1])]_vars

(***************************************************************************)
(* C10: no two Accounts share a handle and no two share an email; a step   *)
(* that changes the Account Directory only adds one account, whose handle  *)
(* and email were both unused, and leaves every existing account as it     *)
(* was; and a complete registration whose handle or email is in use is     *)
(* answered 'Username or email already exists' when the store answers the  *)
(* existence query, and 'Registration Error' with the directory unchanged  *)
(* when that query raises.                                                 *)
(***************************************************************************)
InUse(form) ==
    \E i \in 1..Len(users) :
        users[i].username = form.username \/ users[i].email = form.email

C10_UniqueAccounts ==
    /\ [](\A i, j \in 1..Len(users) :
             i # j => /\ users[i].username # users[j].username
                      /\ users[i].email # users[j].email)
    /\ [][users' # users =>
            /\ Len(users') = Len(users) + 1
            /\ SubSeq(users', 1, Len(users)) = users
            /\ ~InUse(users'[Len(users')])]_vars
    /\ [][(response'.route = "register"
           /\ response'.body # "Username or email already exists") =>
             ~\E form \in {f \in CompleteRegistrations : InUse(f)},
                 create_ok \in CreateOutcomes, commit_ok \in BOOLEAN :
                 Register(form, create_ok, TRUE, commit_ok)]_vars
    /\ [][(/\ response'.route = "register"
           /\ ~(response' = Page("register", "Registration Error") /\ users' = users)) =>
             ~\E form \in {f \in CompleteRegistrations : InUse(f)},
                 create_ok \in CreateOutcomes :
                 Register(form, create_ok, FALSE, TRUE)]_vars

\* A registration was turned away as a duplicate and the directory still
\* holds the one account it held.
C10_Witness ==
    /\ response = Page("register", "Username or email already exists")
    /\ Len(users) = 1

(***************************************************************************)
(* C13: a read (dashboard, transactions, analytics, profile) of a logged-in *)
(* session whose queries cannot reach the store answers with a failure of  *)
(* the whole operation: never with a page of rows and totals, such as an   *)
(* empty list and zero totals.                                             *)
(***************************************************************************)
ReportsFailure(resp) == resp.body \in {"Database Error", "System Error"}

C13_ReadsReportFailure ==
    [][\A b \in Browsers, create_ok \in BOOLEAN :
          (/\ session[b] # <<>>
           /\ response'.route \in {"dashboard", "transactions", "analytics", "profile"}
           /\ \/ Dashboard(b, create_ok, TRUE, FALSE, TRUE)
              \/ \E page \in PageArgs : Transactions(b, page, create_ok, TRUE, FALSE)
              \/ \E template_ok \in BOOLEAN :
                    Analytics(b, create_ok, TRUE, FALSE, template_ok)
              \/ Profile(b, create_ok, TRUE, FALSE))
          => ReportsFailure(response')]_vars

(***************************************************************************)
(* C16: /health, /login, /register and / are rules of the URL map and no   *)
(* request of them is answered by the 404 handler; /health answers status 'ok' whether  *)
(* or not the database is initialized and whoever asks, and the step that  *)
(* answers it changes neither the init flag nor the session nor any stored *)
(* row.                                                                    *)
(***************************************************************************)
RequiredRoutes == {"/health", "/login", "/register", "/"}

C16_HealthAlwaysOk ==
    /\ [](/\ RequiredRoutes \subseteq url_map
          /\ response.route = "not_found" => response.path \notin RequiredRoutes
          /\ response.route = "health" => response.status = "ok")
    /\ [](ENABLED health_check)
    /\ [][response'.route = "health" =>
            UNCHANGED <<db_initialized, users, txns, session, now>>]_vars

\* /health answered ok before the database was ever initialized.
C16_Witness ==
    /\ response.route = "health"
    /\ response.status = "ok"
    /\ ~db_initialized

(***************************************************************************)
(* C15: a page of an owner's list holds at most 20 records; a page number  *)
(* beyond the owner's last page holds no record; and the request of such a *)
(* page is answered with that empty page, not with an error.               *)
(***************************************************************************)
LastPage(uid) == (Cardinality(OwnIds(uid)) + PerPage - 1) \div PerPage

C15_PageBounded ==
    /\ [](/\ \A u \in Registered, p \in PagedPageArgs :
                LET pg == transactions_page(txns, u, p)
                IN  /\ Len(pg.items) <= PerPage
                    /\ p > LastPage(u) => pg.items = <<>>
          /\ (response.route = "transactions" /\ response.body = "view") =>
                /\ Len(response.data.items) <= PerPage
                /\ response.data.page > LastPage(response.user)
                      => response.data.items = <<>>)
    /\ [][\A b \in Browsers, p \in PagedPageArgs :
            (/\ session[b] # <<>>
             /\ p > LastPage(session[b][1])
             /\ response'.route = "transactions"
             /\ Transactions(b, p, TRUE, TRUE, TRUE))
            => /\ response'.body = "view"
               /\ response'.data.page = p
               /\ response'.data.items = <<>>]_vars

\* Page 3 was asked for by an owner whose rows fill two pages, and the
\* empty page was shown.
C15_Witness ==
    /\ response.route = "transactions"
    /\ response.body = "view"
    /\ response.data.page = 3
    /\ response.data.items = <<>>
    /\ LastPage(response.user) = 2

(***************************************************************************)
(* C17: an owner's list is in a total order: creation timestamps never     *)
(* increase along it, and of two records with the same creation timestamp  *)
(* the one with the greater identifier comes first; and so is the list of  *)
(* the page a transactions or dashboard request is shown.                  *)
(***************************************************************************)
InTotalOrder(list) ==
    \A j, k \in 1..Len(list) :
        j < k => \/ list[j].created_at > list[k].created_at
                 \/ /\ list[j].created_at = list[k].created_at
                    /\ list[j].id > list[k].id

C17_TotalOrder ==
    /\ \A u \in Registered : InTotalOrder(order_by_created_desc(filter_by_user(txns, u)))
    /\ (response.body = "view" /\ response.route = "transactions")
          => InTotalOrder(response.data.items)
    /\ (response.body = "view" /\ response.route = "dashboard")
          => InTotalOrder(response.data.transactions)

(***************************************************************************)
(* C18: an add_transaction request either stores exactly one new row and   *)
(* answers with the redirect to the dashboard, or leaves the table exactly *)
(* as it was and answers with something else; and when the commit of a     *)
(* form that passed the checks fails, the table is as before and the       *)
(* answer is the 'Transaction Error' page.                                 *)
(***************************************************************************)
Success(resp) == resp.body = "redirect" /\ resp.to = "dashboard"

C18_AppendAtomic ==
    /\ [][response'.route = "add_transaction" =>
            \/ /\ Success(response')
               /\ Len(txns') = Len(txns) + 1
               /\ SubSeq(txns', 1, Len(txns)) = txns
            \/ /\ ~Success(response')
               /\ txns' = txns]_vars
    /\ [][\A b \in Browsers, form \in PassingForms, create_ok \in BOOLEAN :
            (/\ session[b] # <<>>
             /\ response'.route = "add_transaction"
             /\ AddTransaction(b, form, create_ok, TRUE, FALSE, 1))
            => /\ txns' = txns
               /\ response' = Page("add_transaction", "Transaction Error")]_vars

\* The commit of a second row failed: the error page is shown and the table
\* holds the first row only.
C18_Witness ==
    /\ response = Page("add_transaction", "Transaction Error")
    /\ Len(txns) = 1

(***************************************************************************)
(* Definitions the claims about the two threads share.                     *)
(***************************************************************************)
Done(w) == inflight[w].pc = "done"

Serving(w, op) == inflight[w].pc # "idle" /\ inflight[w].req.op = op

\* A handle and an email that no account of the store had at the start.
NewAccount(form) ==
    \A i \in 1..Len(SeedUsers) :
        SeedUsers[i].username # form.username /\ SeedUsers[i].email # form.email

Registered_ok(resp) == resp = Page("register", "Registration successful!")

(***************************************************************************)
(* C4: owner isolation.  Every query of dashboard, transactions, analytics *)
(* and profile returns for a user what it would return if the table held   *)
(* that user's rows only; a step that appends a row of one owner changes   *)
(* no query result of any other user; and the page a thread returned,      *)
(* whatever other requests were served in between its queries, lists rows  *)
(* of its user only and shows, in each of its parts, what the query of     *)
(* that part returns over the user's own rows of the table as it was at    *)
(* some time (its first n rows).                                           *)
(***************************************************************************)
OwnRowsOf(rows, uid) == SelectSeq(rows, LAMBDA t : t.user_id = uid)

Queries ==
    {"list", "count", "income", "expense", "income_by_category",
     "expense_by_category", "monthly_data"}

\* What every query of the read handlers returns for a user over a table.
Results(rows, uid) ==
    [q \in Queries \X {"transactions", "dashboard"} |-> select(q[1], q[2], rows, uid, 1)]

\* The value is what the query returns over the user's own rows of the
\* table as it was at some time.
FromOwnRows(value, what, op, uid) ==
    \E k \in 0..Len(txns) :
        value = select(what, op, OwnRowsOf(SubSeq(txns, 1, Len(txns) - k), uid), uid, 1)

PageFromOwnRows(resp) ==
    LET d == resp.data
        u == resp.user
    IN  CASE resp.route = "dashboard" ->
               /\ \A k \in 1..Len(d.transactions) : d.transactions[k].user_id = u
               /\ FromOwnRows(d.transactions, "list", "dashboard", u)
               /\ FromOwnRows(d.total_income, "income", "dashboard", u)
               /\ FromOwnRows(d.total_expense, "expense", "dashboard", u)
               /\ d.balance = float_sub(d.total_income, d.total_expense)
          [] resp.route = "transactions" ->
               /\ \A k \in 1..Len(d.items) : d.items[k].user_id = u
               /\ FromOwnRows(d.items, "list", "transactions", u)
               /\ \E k \in 0..Len(txns) :
                     d.has_next =
                        pagination(d.items,
                                   Len(OwnRowsOf(SubSeq(txns, 1, Len(txns) - k), u)),
                                   d.page).has_next
               /\ FromOwnRows(d.total_income, "income", "transactions", u)
               /\ FromOwnRows(d.total_expenses, "expense", "transactions", u)
               /\ d.net_income = float_sub(d.total_income, d.total_expenses)
          [] resp.route = "profile" ->
               /\ FromOwnRows(d.total_transactions, "count", "profile", u)
               /\ FromOwnRows(d.total_income, "income", "profile", u)
               /\ FromOwnRows(d.total_expense, "expense", "profile", u)
               /\ d.net_balance = float_sub(d.total_income, d.total_expense)
          [] resp.route = "analytics" /\ resp.body = "view" ->
               /\ FromOwnRows(d.income_by_category, "income_by_category", "analytics", u)
               /\ FromOwnRows(d.expense_by_category, "expense_by_category", "analytics", u)
               /\ FromOwnRows(d.monthly_data, "monthly_data", "analytics", u)
          [] resp.route = "analytics" /\ resp.body = "fallback" ->
               \E j, k \in 0..Len(txns) :
                   d = fallback_html(
                          by_category(OwnRowsOf(SubSeq(txns, 1, Len(txns) - j), u), u, "income"),
                          by_category(OwnRowsOf(SubSeq(txns, 1, Len(txns) - k), u), u, "expense"))

C4_OwnerIsolation ==
    /\ \A u \in Registered : Results(txns, u) = Results(OwnRowsOf(txns, u), u)
    /\ [][txns' # txns =>
            \A u \in Registered :
                /\ Results(txns', u) = Results(OwnRowsOf(txns', u), u)
                /\ txns'[Len(txns')].user_id # u => Results(txns', u) = Results(txns, u)]_vars
    /\ [](\A w \in Workers :
            (Done(w) /\ inflight[w].resp.body \in {"view", "fallback"})
               => PageFromOwnRows(inflight[w].resp))

\* alice is shown her analytics page, with her expenses, by one thread while
\* the other thread stores an expense of bob's.
C4_Witness ==
    \E v, w \in Workers :
        /\ Done(v) /\ Done(w)
        /\ inflight[w].req.op = "analytics"
        /\ inflight[w].resp.body = "view"
        /\ inflight[w].resp.user = 1
        /\ inflight[w].resp.data.expense_by_category # {}
        /\ inflight[v].req.op = "add_transaction"
        /\ inflight[v].req.b = "b2"
        /\ Success(inflight[v].resp)
        /\ txns[Len(txns)].user_id = 2

(***************************************************************************)
(* C11: under every interleaving of two registrations, no two accounts     *)
(* share a handle; and when both threads have answered a registration of   *)
(* the same handle, which no account had before, exactly one was answered  *)
(* with success, the other with a failure (the conflict page or the        *)
(* registration error), and exactly one account has the handle.            *)
(***************************************************************************)
C11_ConcurrentRegister ==
    /\ \A i, j \in 1..Len(users) : i # j => users[i].username # users[j].username
    /\ \A v, w \in Workers :
          (/\ v # w
           /\ Done(v) /\ Done(w)
           /\ Serving(v, "register") /\ Serving(w, "register")
           /\ inflight[v].req.form.username = inflight[w].req.form.username
           /\ NewAccount(inflight[v].req.form) /\ NewAccount(inflight[w].req.form))
          => /\ Registered_ok(inflight[v].resp) # Registered_ok(inflight[w].resp)
             /\ \A x \in {v, w} :
                   \/ Registered_ok(inflight[x].resp)
                   \/ inflight[x].resp \in
                         {Page("register", "Username or email already exists"),
                          Page("register", "Registration Error")}
             /\ Cardinality({i \in 1..Len(users) :
                      users[i].username = inflight[v].req.form.username}) = 1

(***************************************************************************)
(* C14: no lost update.  A step that changes the transaction table adds    *)
(* one row and keeps every row there was; an append of a form that passes  *)
(* the checks, once it reaches its COMMIT, is answered with the success    *)
(* redirect and its row is the new last row; and when both threads have    *)
(* answered such an append of the same account, under any interleaving,    *)
(* both were answered with success and the table holds a row for each.     *)
(***************************************************************************)
C14_NoLostUpdate ==
    /\ [][txns' # txns =>
            /\ Len(txns') = Len(txns) + 1
            /\ SubSeq(txns', 1, Len(txns)) = txns]_vars
    /\ [][\A w \in Workers :
            (/\ inflight[w].pc = "commit"
             /\ inflight'[w].pc # "commit"
             /\ form_error(inflight[w].req.form) = "")
            => /\ inflight'[w].pc = "done"
               /\ Success(inflight'[w].resp)
               /\ Len(txns') = Len(txns) + 1
               /\ Submitted(txns'[Len(txns')], inflight[w].req.form,
                            inflight[w].user[1])]_vars
    /\ [](\A v, w \in Workers :
            (/\ v # w
             /\ Done(v) /\ Done(w)
             /\ Serving(v, "add_transaction") /\ Serving(w, "add_transaction")
             /\ form_error(inflight[v].req.form) = ""
             /\ form_error(inflight[w].req.form) = "")
            => /\ Success(inflight[v].resp) /\ Success(inflight[w].resp)
               /\ \E i, j \in 1..Len(txns) :
                     /\ i # j
                     /\ Submitted(txns[i], inflight[v].req.form,
                                  session[inflight[v].req.b][1])
                     /\ Submitted(txns[j], inflight[w].req.form,
                                  session[inflight[w].req.b][1]))

(***************************************************************************)
(* C19: at no time have two threads both found the flag unset in ensure_db *)
(* and not yet returned from it, that is, db.create_all() is never run by  *)
(* two requests.                                                           *)
(***************************************************************************)
C19_InitOnce ==
    Cardinality({w \in Workers : inflight[w].pc \in {"create_all", "set_flag"}}) <= 1

(***************************************************************************)
(* C20: the page a transactions or dashboard request shows after reading   *)
(* the list and then the totals, with appends in between, has totals that  *)
(* include every transaction of its list: each total is the sum over the   *)
(* owner's rows of the kind among the first n rows of the table, for an n  *)
(* that no listed row lies beyond.                                         *)
(***************************************************************************)
Listed(resp) ==
    IF resp.route = "transactions" THEN resp.data.items ELSE resp.data.transactions

ExpenseShown(resp) ==
    IF resp.route = "transactions" THEN resp.data.total_expenses
    ELSE resp.data.total_expense

TotalsCoverList(resp) ==
    LET ids == {Listed(resp)[k].id : k \in 1..Len(Listed(resp))}
    IN  /\ \E n \in 0..Len(txns) :
              /\ \A i \in ids : i <= n
              /\ resp.data.total_income
                    = AmountsOf({i \in OwnKindIds(resp.user, "income") : i <= n})
        /\ \E n \in 0..Len(txns) :
              /\ \A i \in ids : i <= n
              /\ ExpenseShown(resp)
                    = AmountsOf({i \in OwnKindIds(resp.user, "expense") : i <= n})

C20_BalanceCoversList ==
    /\ \A w \in Workers :
          (/\ Done(w)
           /\ inflight[w].req.op \in {"transactions", "dashboard"}
           /\ inflight[w].resp.body = "view")
          => TotalsCoverList(inflight[w].resp)
    /\ (response.body = "view" /\ response.route \in {"transactions", "dashboard"})
          => TotalsCoverList(response)

\* An append landed between the read of the list and the read of the
\* totals: the page lists nothing and its income total counts the new row.
C20_Witness ==
    \E w \in Workers :
        /\ Done(w)
        /\ inflight[w].req.op = "transactions"
        /\ inflight[w].resp.body = "view"
        /\ inflight[w].resp.data.items = <<>>
        /\ float_gt0(inflight[w].resp.data.total_income)

(***************************************************************************)
(* C21: a Transaction is immutable once created.  Every step keeps every   *)
(* stored row in its place with its identifier, owner, kind, amount,       *)
(* category, description and effective date, and removes none (the program *)
(* has no delete, so nothing but a delete by the owner could); the         *)
(* identifiers are unique and strictly increasing in creation order.       *)
(***************************************************************************)
Content(t) ==
    [id |-> t.id, user_id |-> t.user_id, type |-> t.type, amount |-> t.amount,
     category |-> t.category, description |-> t.description, date |-> t.date]

C21_TransactionImmutable ==
    /\ [](\A i, j \in 1..Len(txns) : i < j => txns[i].id < txns[j].id)
    /\ [][/\ Len(txns') >= Len(txns)
          /\ \A i \in 1..Len(txns) : Content(txns'[i]) = Content(txns[i])]_vars

\* A second row was appended behind a row that was already stored.
C21_Witness ==
    /\ Len(txns) = 2
    /\ response = Redirect("add_transaction", "dashboard")
    /\ txns[1].created_at < txns[2].created_at

(***************************************************************************)
(* C22: an append with a missing type, amount, category or date, or with a *)
(* date that is not a valid YYYY-MM-DD calendar date, is rejected and      *)
(* stores nothing, whereas a missing or empty description is accepted: the *)
(* POST of a logged-in user whose form is otherwise good stores the row    *)
(* when the commit succeeds.                                               *)
(***************************************************************************)
\* The date texts of the model that are a calendar date written YYYY-MM-DD.
IsoDates == {"2024-01-15", "2023-12-31"}

RequiredMissing(form) ==
    \E v \in {form.type, form.amount, form.category, form.date} : v \in {None, ""}

MustBeRejected(form) == RequiredMissing(form) \/ form.date \notin IsoDates

NoDescription(form) ==
    /\ form.description \in {None, ""}
    /\ ~MustBeRejected(form)
    /\ ~float(form.amount).err
    /\ float_gt0(float(form.amount).val)

C22_InvalidRejected ==
    /\ [][txns' # txns => ~AddsOneOf({f \in RestartedForms : MustBeRejected(f)})]_vars
    /\ [][\A b \in Browsers, form \in {f \in RestartedForms : NoDescription(f)}, tick \in {0, 1} :
             (/\ session[b] # <<>>
              /\ AddTransaction(b, form, TRUE, TRUE, TRUE, tick))
             => /\ Len(txns') = Len(txns) + 1
                /\ txns'[Len(txns')].description = form.description
                /\ Success(response')]_vars

(***************************************************************************)
(* C23: a session becomes authenticated as account u only through a login  *)
(* POST that supplies u's handle together with a secret matching u's       *)
(* stored credential; and a login that supplies an unknown handle or a     *)
(* secret that does not match u's credential (a wrong secret, or none), on *)
(* a store that answers the query, is answered 'Invalid credentials', the  *)
(* same page in both cases, and leaves the session as it was.              *)
(***************************************************************************)
\* The form names account u and carries the secret u registered with.
Matches(u, form) ==
    /\ users[u].username = form.username
    /\ users[u].password_hash = generate_password_hash(form.password)

UnknownHandle(form) == \A u \in Registered : users[u].username # form.username

WrongSecret(form) ==
    \E u \in Registered :
        /\ users[u].username = form.username
        /\ users[u].password_hash # generate_password_hash(form.password)

C23_LoginOnly ==
    /\ [][\A b \in Browsers :
             (session'[b] # session[b] /\ session'[b] # <<>>)
             => \E form \in LoginForms, create_ok \in BOOLEAN :
                   /\ Login(b, form, create_ok, TRUE)
                   /\ session'[b][1] \in Registered
                   /\ Matches(session'[b][1], form)]_vars
    /\ [][response'.route = "login" =>
             \A b \in Browsers, form \in LoginForms :
                (/\ UnknownHandle(form) \/ WrongSecret(form)
                 /\ Login(b, form, TRUE, TRUE))
                => /\ response' = Page("login", "Invalid credentials")
                   /\ session' = session]_vars

(***************************************************************************)
(* C24: a request without an authenticated session (the cookie names no    *)
(* one: never logged in, or logged out; or the user it names does not      *)
(* load) to dashboard, add_transaction, transactions, analytics or profile *)
(* is turned away to the login view: it is shown no data and the           *)
(* transaction table stays as it was.  So every row that is stored has as  *)
(* its owner the account of the session of the request that stored it.     *)
(***************************************************************************)
ProtectedRoutes == {"dashboard", "add_transaction", "transactions", "analytics", "profile"}

\* The session of b names no account that loads: no id, an id of no row, or
\* a store that is not initialized and cannot be (create_ok), or a lookup
\* that raised (load_ok).
Unauthenticated(b, create_ok, load_ok) ==
    \/ session[b] = <<>>
    \/ session[b][1] \notin Registered
    \/ ~(db_initialized \/ create_ok)
    \/ ~load_ok

\* This step is a request of b to one of the five handlers.
ProtectedRequest(b, create_ok, load_ok) ==
    \/ /\ response'.route = "dashboard"
       /\ \E query_ok \in BOOLEAN, template_ok \in BOOLEAN :
             Dashboard(b, create_ok, load_ok, query_ok, template_ok)
    \/ /\ response'.route = "transactions"
       /\ \E page \in PageArgs, query_ok \in BOOLEAN :
             Transactions(b, page, create_ok, load_ok, query_ok)
    \/ /\ response'.route = "analytics"
       /\ \E query_ok \in BOOLEAN, template_ok \in BOOLEAN :
             Analytics(b, create_ok, load_ok, query_ok, template_ok)
    \/ /\ response'.route = "profile"
       /\ \E query_ok \in BOOLEAN : Profile(b, create_ok, load_ok, query_ok)
    \/ /\ response'.route = "add_transaction"
       /\ \/ AddTransactionGet(b, create_ok, load_ok)
          \/ \E form \in RestartedForms, commit_ok \in BOOLEAN, tick \in {0, 1} :
                AddTransaction(b, form, create_ok, load_ok, commit_ok, tick)

C24_AnonymousTurnedAway ==
    /\ [][response'.route \in ProtectedRoutes =>
             \A b \in Browsers, create_ok \in BOOLEAN, load_ok \in BOOLEAN :
                (/\ Unauthenticated(b, create_ok, load_ok)
                 /\ ProtectedRequest(b, create_ok, load_ok))
                => /\ response'.body = "unauthorized"
                   /\ response'.to = "login"
                   /\ txns' = txns]_vars
    /\ [][txns' # txns
          => /\ Len(txns') = Len(txns) + 1
             /\ \E b \in Browsers :
                   /\ session[b] # <<>>
                   /\ session[b][1] \in Registered
                   /\ txns'[Len(txns')].user_id = session[b][1]
                   /\ \E form \in RestartedForms, tick \in {0, 1} :
                         AddTransaction(b, form, TRUE, TRUE, TRUE, tick)]_vars

\* The cookie names an id that no account of the initialized store has, so
\* no user loaded: the request to add_transaction was turned away and the
\* stored row is untouched.
C24_Witness ==
    /\ response = Unauthorized("add_transaction")
    /\ \E b \in Browsers : session[b] # <<>> /\ session[b][1] \notin Registered
    /\ db_initialized
    /\ txns # <<>>

(***************************************************************************)
(* C25: the store-initialized flag is monotonic and gates all writes.      *)
(* Once set the flag stays set; a call of ensure_db whose db.create_all()  *)
(* fails leaves it unset, and the next call tries again; and a POST to     *)
(* register, to login or (from a browser whose session names an account)   *)
(* to add_transaction that finds the flag unset and cannot set it is       *)
(* answered with the 'Database Error' page and creates no account, no      *)
(* session and no transaction.                                             *)
(***************************************************************************)
DatabaseError(resp) == resp.body = "Database Error"

NothingCreated == UNCHANGED <<users, session, txns>>

\* The flag never goes back, and a failed initialization can be retried.
FlagMonotonic ==
    /\ [][db_initialized => db_initialized']_vars
    /\ [][(~db_initialized /\ init_db_route(FALSE))
          => (~db_initialized' /\ ENABLED (init_db_route(TRUE) /\ UNCHANGED threads))]_vars

\* register and login with the store down.
GatesRegisterLogin ==
    [][/\ \A form \in RestartedRegistrations, query_ok \in BOOLEAN, commit_ok \in BOOLEAN :
             (~db_initialized /\ Register(form, FALSE, query_ok, commit_ok))
             => (DatabaseError(response') /\ NothingCreated)
       /\ \A b \in Browsers, form \in LoginForms, query_ok \in BOOLEAN :
             (~db_initialized /\ Login(b, form, FALSE, query_ok))
             => (DatabaseError(response') /\ NothingCreated)]_vars

\* add_transaction with the store down.
GatesAddTransaction ==
    [][\A b \in Browsers, form \in RestartedForms, load_ok \in BOOLEAN,
          commit_ok \in BOOLEAN, tick \in {0, 1} :
          (/\ ~db_initialized
           /\ session[b] # <<>>
           /\ AddTransaction(b, form, FALSE, load_ok, commit_ok, tick))
          => (DatabaseError(response') /\ NothingCreated)]_vars

C25_FlagGatesWrites == FlagMonotonic /\ GatesRegisterLogin /\ GatesAddTransaction

====
